---- MODULE Spec2Model ----
(***************************************************************************)
(* Model of the git workflow scripts of the repository:                    *)
(*   - scripts/git-develop-commit.sh  (commit workflow, Python)            *)
(*   - scripts/git-release-retag.sh   (TagRebuilder, bash)                 *)
(*   - scripts/git-release.sh         (ReleaseManager, bash)               *)
(* Each script is a sequential program; every git subprocess it runs is a  *)
(* step whose exit status is chosen nondeterministically where the script  *)
(* reacts to it.                                                           *)
(***************************************************************************)
EXTENDS Integers, Sequences, FiniteSets, TLC

(***************************************************************************)
(* Strings.  A path is a sequence of one-character strings; Code gives the *)
(* code point Python's str comparison uses.  Command-line texts are        *)
(* sequences of tokens: the delimiters "," "|" " " and opaque words.       *)
(***************************************************************************)
Code ==
  [c \in {"*", "-", ".", "/", "0", "1", "2", "3", "4", "5", "6", "7", "8",
           "9", "a", "b", "e", "l", "o", "r", "s", "t", "v", "x", "y",
           "z"} |->
     CASE c = "*" -> 42 [] c = "-" -> 45 [] c = "." -> 46 [] c = "/" -> 47
       [] c = "0" -> 48 [] c = "1" -> 49 [] c = "2" -> 50 [] c = "3" -> 51
       [] c = "4" -> 52 [] c = "5" -> 53 [] c = "6" -> 54 [] c = "7" -> 55
       [] c = "8" -> 56 [] c = "9" -> 57 [] c = "a" -> 97 [] c = "b" -> 98
       [] c = "e" -> 101 [] c = "l" -> 108 [] c = "o" -> 111
       [] c = "r" -> 114 [] c = "s" -> 115 [] c = "t" -> 116
       [] c = "v" -> 118 [] c = "x" -> 120 [] c = "y" -> 121
       [] c = "z" -> 122]

Min(a, b) == IF a <= b THEN a ELSE b

\* Python's str < str: first differing code point, a proper prefix is smaller
RECURSIVE StrLess(_, _)
StrLess(a, b) ==
  IF b = <<>> THEN FALSE
  ELSE IF a = <<>> THEN TRUE
  ELSE IF Head(a) = Head(b) THEN StrLess(Tail(a), Tail(b))
  ELSE Code[Head(a)] < Code[Head(b)]

\* sorted(...) over a set of distinct strings
RECURSIVE SortedSeq(_)
SortedSeq(S) ==
  IF S = {} THEN <<>>
  ELSE LET m == CHOOSE x \in S : \A y \in S \ {x} : StrLess(x, y)
       IN <<m>> \o SortedSeq(S \ {m})

Range(s) == {s[i] : i \in 1..Len(s)}

\* index of the last "/" of a path, 0 when there is none
LastSlash(p) ==
  LET I == {i \in 1..Len(p) : p[i] = "/"}
  IN IF I = {} THEN 0 ELSE CHOOSE i \in I : \A j \in I : j <= i

\* pathlib normalisation: a trailing "/" is dropped
NormPath(p) ==
  IF Len(p) > 1 /\ p[Len(p)] = "/" THEN SubSeq(p, 1, Len(p) - 1) ELSE p

\* str(Path(f).parent): the path without its last component, "." at the top
PathParent(f) ==
  LET p == NormPath(f)
      k == LastSlash(p)
  IN IF k = 0 THEN <<".">> ELSE SubSeq(p, 1, k - 1)

IsPrefix(a, b) == Len(a) <= Len(b) /\ SubSeq(b, 1, Len(a)) = a

\* git pathspec match of file f by the directory (or file) pathspec d
UnderPathspec(f, d) ==
  LET n == NormPath(d)
  IN \/ n = <<".">>
     \/ f = n
     \/ IsPrefix(n \o <<"/">>, f)

(***************************************************************************)
(* The working tree of the commit workflow: four files in four directories *)
(***************************************************************************)
FileAX  == <<"a", "/", "x">>
FileABY == <<"a", "/", "b", "/", "y">>
FileR   == <<"r">>
FileSZ  == <<"s", "/", "z">>
Files   == {FileAX, FileABY, FileR, FileSZ}

\* directories of the universe, as pathspecs with the trailing "/" of
\* git status --porcelain
Dirs == {<<"a", "/">>, <<"a", "/", "b", "/">>, <<"s", "/">>}


\* the states a file can start in: head, index and working-tree content
\* ("none" = absent, "old" = committed content, "new" = changed content)
Clean     == [head |-> "old",  idx |-> "old",  wt |-> "old"]
Modified  == [head |-> "old",  idx |-> "old",  wt |-> "new"]
Deleted   == [head |-> "old",  idx |-> "old",  wt |-> "none"]
Untracked == [head |-> "none", idx |-> "none", wt |-> "new"]
Staged    == [head |-> "old",  idx |-> "new",  wt |-> "new"]

InitialTrees ==
  {t \in [Files -> {Clean, Modified, Deleted, Untracked, Staged}] :
     /\ t[FileAX]  \in {Clean, Modified, Untracked}
     /\ t[FileABY] \in {Clean, Modified, Deleted}
     /\ t[FileR]   \in {Clean, Modified, Untracked}
     /\ t[FileSZ]  \in {Clean, Modified, Staged, Untracked}}

(***************************************************************************)
(* git, as far as the commit workflow uses it                              *)
(***************************************************************************)
Tracked(t, f) == t[f].idx # "none"

\* the entry git status --porcelain prints for an untracked file: the
\* topmost directory that holds no tracked file, else the file itself
UntrackedEntry(t, f) ==
  LET ds == {d \in Dirs : UnderPathspec(f, d)
                          /\ \A g \in Files : UnderPathspec(g, d) => ~Tracked(t, g)}
  IN IF ds = {} THEN f
     ELSE CHOOSE d \in ds : \A e \in ds : Len(d) <= Len(e)

\* paths listed by git status --porcelain, as get_modified_files reads them
get_modified_files(t) ==
  {f \in Files : Tracked(t, f) /\ (t[f].idx # t[f].head \/ t[f].wt # t[f].idx)}
  \cup {f \in Files : ~Tracked(t, f) /\ t[f].head # "none"}
  \cup {UntrackedEntry(t, f) : f \in {g \in Files : ~Tracked(t, g)
                                        /\ t[g].head = "none" /\ t[g].wt # "none"}}

\* Path(p).exists()
PathExists(t, p) ==
  IF p \in Files THEN t[p].wt # "none"
  ELSE \E f \in Files : UnderPathspec(f, p) /\ t[f].wt # "none"

\* git add -u -- dirs: stage modifications and deletions of tracked files
GitAddUpdate(t, dirs) ==
  [f \in Files |->
     IF Tracked(t, f) /\ \E d \in dirs : UnderPathspec(f, d)
     THEN [t[f] EXCEPT !.idx = t[f].wt] ELSE t[f]]

\* git add -- paths: stage the working-tree state of everything under paths
GitAdd(t, paths) ==
  [f \in Files |->
     IF \E p \in paths : UnderPathspec(f, p)
     THEN [t[f] EXCEPT !.idx = t[f].wt] ELSE t[f]]

\* what git commit records: every path whose index differs from HEAD
StagedFiles(t) == {f \in Files : t[f].idx # t[f].head}

GitCommit(t) == [f \in Files |-> [t[f] EXCEPT !.head = t[f].idx]]

(***************************************************************************)
(* group_files_by_directory                                                *)
(***************************************************************************)
RootKey == <<"r", "o", "o", "t">>
StarKey == <<"*">>

\* mutant: the key is the top-level directory of the path
GroupKeyTopLevel(p) ==
  LET n == NormPath(p)
      I == {i \in 1..Len(n) : n[i] = "/"}
  IN IF I = {} THEN RootKey
     ELSE SubSeq(n, 1, (CHOOSE i \in I : \A j \in I : i <= j) - 1)

\* lines 173-180: str(parent) in ("", ".") -> "root", else str(parent)
GroupKey(p) ==
  LET parent == PathParent(p)
  IN IF parent \in {<<>>, <<".">>} THEN RootKey ELSE parent

group_files_by_directory(files, use_wildcard) ==
  IF use_wildcard THEN [k \in {StarKey} |-> files]
  ELSE [k \in {GroupKey(p) : p \in files} |-> {p \in files : GroupKey(p) = k}]

\* the files of the universe a group entry (file or directory) stands for
EntryFiles(p) == {f \in Files : UnderPathspec(f, p)}

(***************************************************************************)
(* Token strings: split, strip, join                                       *)
(***************************************************************************)
RECURSIVE Strip(_)
Strip(s) ==
  IF s = <<>> THEN s
  ELSE IF Head(s) = " " THEN Strip(Tail(s))
  ELSE IF s[Len(s)] = " " THEN Strip(SubSeq(s, 1, Len(s) - 1))
  ELSE s

\* str.split(d, max): at most max splits, so at most max + 1 parts
RECURSIVE SplitMax(_, _, _)
SplitMax(s, d, max) ==
  LET I == {i \in 1..Len(s) : s[i] = d}
  IN IF max = 0 \/ I = {} THEN <<s>>
     ELSE LET k == CHOOSE i \in I : \A j \in I : i <= j
          IN <<SubSeq(s, 1, k - 1)>> \o SplitMax(SubSeq(s, k + 1, Len(s)), d, max - 1)

Split(s, d) == SplitMax(s, d, Len(s))

\* mutant: blank segments are kept
SplitDescriptionsKeepsBlank(raw) ==
  LET parts == Split(raw, "|")
  IN [i \in 1..Len(parts) |-> Strip(parts[i])]

\* [d.strip() for d in raw.split('|') if d.strip()]
SplitDescriptions(raw) ==
  LET parts == Split(raw, "|")
  IN SelectSeq([i \in 1..Len(parts) |-> Strip(parts[i])], LAMBDA x : x # <<>>)

VALID_TYPES  == {"feat", "fix", "refactor", "chore", "docs", "test", "style", "perf"}
VALID_SCOPES == {"utils", "controle", "sql", "dag", "config", "monitoring",
                 "scripts", "docs", "*"}

NoBody == [some |-> FALSE, val |-> <<>>]
SomeBody(b) == [some |-> TRUE, val |-> b]

\* mutant: the scope is not checked against the allowed set
ParseWithoutScopeCheck(arg) ==
  LET parts == SplitMax(arg, ",", 3)
  IN IF Len(parts) < 3
     THEN [ok |-> FALSE, error |-> [kind |-> "format", value |-> arg,
                             allowed |-> {"type,scope,description[,body]"}]]
     ELSE LET commit_type  == Strip(parts[1])
              scope        == Strip(parts[2])
              descriptions == SplitDescriptions(Strip(parts[3]))
              body         == IF Len(parts) = 4 THEN SomeBody(Strip(parts[4])) ELSE NoBody
          IN IF Len(commit_type) # 1 \/ commit_type[1] \notin VALID_TYPES
             THEN [ok |-> FALSE,
                   error |-> [kind |-> "type", value |-> commit_type, allowed |-> VALID_TYPES]]
             ELSE IF descriptions = <<>>
             THEN [ok |-> FALSE,
                   error |-> [kind |-> "description", value |-> <<>>, allowed |-> {}]]
             ELSE [ok |-> TRUE, type |-> commit_type[1],
                   scope |-> IF scope = <<>> THEN "" ELSE scope[1],
                   descriptions |-> descriptions, body |-> body]

\* parse_comma_separated_format (lines 202-259), called with VALID_TYPES and
\* VALID_SCOPES of main: [ok, type, scope, descriptions, body], or
\* [ok, error] with what the message of the ValueError names
parse_comma_separated_format(arg) ==
  LET parts == SplitMax(arg, ",", 3)
  IN IF Len(parts) < 3
     THEN [ok |-> FALSE, error |-> [kind |-> "format", value |-> arg,
                             allowed |-> {"type,scope,description[,body]"}]]
     ELSE LET commit_type  == Strip(parts[1])
              scope        == Strip(parts[2])
              descriptions == SplitDescriptions(Strip(parts[3]))
              body         == IF Len(parts) = 4 THEN SomeBody(Strip(parts[4])) ELSE NoBody
          IN IF Len(commit_type) # 1 \/ commit_type[1] \notin VALID_TYPES
             THEN [ok |-> FALSE,
                   error |-> [kind |-> "type", value |-> commit_type, allowed |-> VALID_TYPES]]
             ELSE IF Len(scope) # 1 \/ scope[1] \notin VALID_SCOPES
             THEN [ok |-> FALSE,
                   error |-> [kind |-> "scope", value |-> scope, allowed |-> VALID_SCOPES]]
             ELSE IF descriptions = <<>>
             THEN [ok |-> FALSE,
                   error |-> [kind |-> "description", value |-> <<>>, allowed |-> {}]]
             ELSE [ok |-> TRUE, type |-> commit_type[1], scope |-> scope[1],
                   descriptions |-> descriptions, body |-> body]

\* mutant: the scope is rendered as given
CreateCommitMessageRawScope(commit_type, scope, description, body) ==
  LET message == <<commit_type, "(", scope, ")", ":", " ">> \o description
  IN IF body.some /\ body.val # <<>>
     THEN message \o <<"\n", "\n">> \o body.val
     ELSE message

\* create_commit_message (lines 262-281); `if body:` is false for None and
\* for the empty string
create_commit_message(commit_type, scope, description, body) ==
  LET display_scope == IF scope = "*" THEN "all" ELSE scope
      message == <<commit_type, "(", display_scope, ")", ":", " ">> \o description
  IN IF body.some /\ body.val # <<>>
     THEN message \o <<"\n", "\n">> \o body.val
     ELSE message


(***************************************************************************)
(* State                                                                   *)
(***************************************************************************)
VARIABLES
  \* --- commit workflow (git-develop-commit.sh) ---
  argv,             \* the command line: form, type, scope, description, body
  cwPc,             \* position of the script
  branch,           \* current branch of the repository
  tree,             \* head / index / working-tree content of every file
  commits,          \* commits this run created on the current branch
  pushed,           \* how many of them origin/develop has received
  bindings,         \* commit_type, scope, description, descriptions, body
  groups,           \* result of group_files_by_directory
  preview,          \* (group, message) pairs shown by the preview
  attempted,        \* group keys the loop of execute_commits has entered
  commits_executed, \* return value of execute_commits
  cwExit,           \* exit code, -1 while running
  tree0,            \* snapshot at invocation: tree
  branch0,          \* snapshot at invocation: current branch
  \* --- tags of the local clone and of origin: name -> [target, msg] ---
  localTags,
  remoteTags,
  \* --- TagRebuilder (git-release-retag.sh) ---
  rtArgs,           \* [yes]: --yes / -y given
  rtEnv,            \* [inRepo, clean, hasMain, hasDevelop]
  history,          \* git log main --first-parent --reverse: [hash, subject]
  rtPc,             \* position of the script
  release_tags,     \* $release_tags, as a list of names
  semver_tags,      \* $semver_tags, as a list of names
  rtDone,           \* how many entries of the list being walked are done
  release_commits,  \* $release_commits, as a list of hashes
  rtLog,            \* the tag deletions run so far, in order: [cmd, tag, status]
  rtExit,           \* exit code, -1 while running
  \* --- ReleaseManager (git-release.sh) ---
  rlArgs,           \* the command line: no_tag, type, scope, description, body, raw_spec
  rlPc,             \* position of the script
  rlClean,          \* git diff --quiet && git diff --cached --quiet
  rlBranch,         \* current branch
  rlLocal,          \* local branches main and develop: [head, reach]
  rlRemote,         \* origin's branches main and develop: [head, reach]
  merge_title,      \* $merge_title
  commit_body,      \* $commit_body
  semver_tag,       \* $semver_tag
  rlMerge,          \* the merge commit this run created: [id, msg], id "none" if none
  rlLog,            \* the commands run so far, in order: [cmd, ok]
  rlExit,           \* exit code, -1 while running
  localTags0,       \* snapshot at invocation: local tags
  remoteTags0,      \* snapshot at invocation: remote tags
  runs,             \* two runs of git-release.sh from separate clones of one
                    \* origin: run -> [pc, branch, local, tags, title,
                    \* semver_tag, merge, exit]; <<>> when one run is modelled
  \* --- feature workflow (git-feature-sync.sh, git-feature-finish.sh) ---
  ffScript,         \* the script that was invoked: "sync" or "finish"
  ffPc,             \* position of the script
  ffBranch,         \* current branch (git rev-parse --abbrev-ref HEAD)
  ffClean,          \* git diff --quiet && git diff --cached --quiet
  ffLocal,          \* local branches: name -> [head, reach]
  ffRemote,         \* origin's branches: name -> [head, reach]
  ffTracking,       \* the remote-tracking branch origin/develop: [head, reach]
  current_branch,   \* $current_branch of git-feature-sync.sh
  feature_branch,   \* $feature_branch of git-feature-finish.sh
  ffMerged,         \* the revision git-feature-sync.sh merged in, Absent if none
  ffLog,            \* the git commands run so far, in order: [cmd, ok]
  ffExit            \* exit code, -1 while running

cwVars == <<argv, cwPc, branch, tree, commits, pushed, bindings, groups, preview,
            attempted, commits_executed, cwExit, tree0, branch0>>
tagVars == <<localTags, remoteTags>>
rtVars == <<rtArgs, rtEnv, history, rtPc, release_tags, semver_tags, rtDone,
            release_commits, rtLog, rtExit>>
rlVars == <<rlArgs, rlPc, rlClean, rlBranch, rlLocal, rlRemote, merge_title,
            commit_body, semver_tag, rlMerge, rlLog, rlExit, localTags0, remoteTags0,
            runs>>
ffVars == <<ffScript, ffPc, ffBranch, ffClean, ffLocal, ffRemote, ffTracking,
            current_branch, feature_branch, ffMerged, ffLog, ffExit>>
vars   == <<cwVars, tagVars, rtVars, rlVars, ffVars>>

(***************************************************************************)
(* Commit workflow: inputs                                                 *)
(***************************************************************************)
MaxDescs == 2

DescWords == <<"d1", "d2", "d3", "d4">>

\* "d1|d2|...|dn"
RECURSIVE DescriptionArg(_)
DescriptionArg(n) ==
  IF n = 1 THEN <<DescWords[1]>>
  ELSE DescriptionArg(n - 1) \o <<"|", DescWords[n]>>

\* the positional string "T,S,D[,B]" for the fields of a flags invocation
CommitString(a) ==
  <<a.type, ",", a.scope, ",">> \o a.description
    \o (IF a.body.some THEN <<",">> \o a.body.val ELSE <<>>)

\* the parts of a positional string joined with ","
RECURSIVE JoinParts(_)
JoinParts(parts) ==
  IF parts = <<>> THEN <<>>
  ELSE IF Len(parts) = 1 THEN parts[1]
  ELSE parts[1] \o <<",">> \o JoinParts(Tail(parts))

Argvs ==
  [form : {"flags", "positional"}, type : {"feat"}, scope : {"utils", "*"},
   description : {DescriptionArg(n) : n \in 1..MaxDescs},
   body : {NoBody, SomeBody(<<"b1">>)}]

Unbound == [bound |-> FALSE, val |-> <<>>]
Bound(v) == [bound |-> TRUE, val |-> v]

NoBindings ==
  [commit_type |-> Unbound, scope |-> Unbound, description |-> Unbound,
   descriptions |-> Unbound, body |-> Unbound]

NoTags == <<>>

TagsIdle ==
  /\ localTags = NoTags
  /\ remoteTags = NoTags

RtIdle ==
  /\ rtArgs = [yes |-> FALSE]
  /\ rtEnv = [inRepo |-> TRUE, clean |-> TRUE, hasMain |-> TRUE, hasDevelop |-> TRUE]
  /\ history = <<>>
  /\ rtPc = "idle"
  /\ release_tags = <<>>
  /\ semver_tags = <<>>
  /\ rtDone = 0
  /\ release_commits = <<>>
  /\ rtLog = <<>>
  /\ rtExit = -1

NoMerge == [id |-> "none", msg |-> <<>>]

RlIdle ==
  /\ rlArgs = [no_tag |-> FALSE, type |-> <<>>, scope |-> <<>>, description |-> <<>>,
               body |-> <<>>, raw_spec |-> <<>>]
  /\ rlPc = "idle"
  /\ rlClean = TRUE
  /\ rlBranch = "develop"
  /\ rlLocal = <<>>
  /\ rlRemote = <<>>
  /\ merge_title = <<>>
  /\ commit_body = <<>>
  /\ semver_tag = <<>>
  /\ rlMerge = NoMerge
  /\ rlLog = <<>>
  /\ rlExit = -1
  /\ localTags0 = NoTags
  /\ remoteTags0 = NoTags
  /\ runs = <<>>

Absent == [head |-> "none", reach |-> {}]

FfIdle ==
  /\ ffScript = "sync"
  /\ ffPc = "idle"
  /\ ffBranch = <<>>
  /\ ffClean = TRUE
  /\ ffLocal = <<>>
  /\ ffRemote = <<>>
  /\ ffTracking = Absent
  /\ current_branch = <<>>
  /\ feature_branch = <<>>
  /\ ffMerged = Absent
  /\ ffLog = <<>>
  /\ ffExit = -1

InitCommit ==
  /\ argv \in Argvs
  /\ cwPc = "args"
  /\ branch \in {"develop", "feature/x"}
  /\ tree \in InitialTrees
  /\ commits = <<>>
  /\ pushed = 0
  /\ bindings = NoBindings
  /\ groups = <<>>
  /\ preview = <<>>
  /\ attempted = <<>>
  /\ commits_executed = <<>>
  /\ cwExit = -1
  /\ tree0 = tree
  /\ branch0 = branch
  /\ TagsIdle
  /\ RtIdle
  /\ RlIdle
  /\ FfIdle

(***************************************************************************)
(* Commit workflow: main()                                                 *)
(***************************************************************************)
CwExitWith(code) ==
  /\ cwPc' = "exit"
  /\ cwExit' = code

\* the argparse namespace of a command line (lines 396-423): every option
\* and the positional commit_string, each None or a value
ArgNamespace(a) ==
  LET flags == a.form \in {"flags", "flags_and_positional"}
      positional == a.form \in {"positional", "flags_and_positional",
                                "body_and_positional", "string"}
  IN [type |-> IF flags THEN SomeBody(a.type) ELSE NoBody,
      scope |-> IF flags THEN SomeBody(a.scope) ELSE NoBody,
      description |-> IF flags THEN SomeBody(a.description) ELSE NoBody,
      body |-> IF a.form \in {"flags", "flags_and_positional", "body_and_positional"}
               THEN a.body ELSE NoBody,
      commit_string |->
        IF ~positional THEN NoBody
        ELSE IF a.form = "string" THEN SomeBody(JoinParts(a.parts))
        ELSE IF a.form = "body_and_positional"
             THEN SomeBody(CommitString([a EXCEPT !.body = NoBody]))
             ELSE SomeBody(CommitString(a))]

\* lines 396-405, 425: --type and --scope are declared with choices, so
\* parse_args rejects any other value itself (parser.error: exit status 2)
ArgparseAccepts(ns) ==
  /\ ns.type.some => ns.type.val \in VALID_TYPES
  /\ ns.scope.some => ns.scope.val \in VALID_SCOPES

\* line 428: --body is not one of the flags that has_flags looks at
cw_has_flags(ns) == ns.type.some \/ ns.scope.some \/ ns.description.some

\* line 429
cw_has_positional(ns) == ns.commit_string.some

\* lines 425-469: the conflict and the missing-argument checks, then parsing
\* and binding of the commit specification.  The positional branch binds the
\* parsed list to `description`; the flags branch binds it to `descriptions`
\* and does not test it for emptiness.
CwParseArgs ==
  /\ cwPc = "args"
  /\ LET ns == ArgNamespace(argv)
     IN IF ~ArgparseAccepts(ns)
        THEN /\ CwExitWith(2)
             /\ UNCHANGED bindings
        ELSE IF cw_has_flags(ns) /\ cw_has_positional(ns)
        THEN /\ CwExitWith(1)
             /\ UNCHANGED bindings
        ELSE IF ~cw_has_flags(ns) /\ ~cw_has_positional(ns)
        THEN /\ CwExitWith(1)
             /\ UNCHANGED bindings
        ELSE IF cw_has_positional(ns)
        THEN LET r == parse_comma_separated_format(ns.commit_string.val)
             IN IF r.ok
                THEN /\ bindings' = [commit_type |-> Bound(r.type), scope |-> Bound(r.scope),
                                     description |-> Bound(r.descriptions),
                                     descriptions |-> Unbound, body |-> Bound(r.body)]
                     /\ cwPc' = "branch"
                     /\ UNCHANGED cwExit
                ELSE /\ CwExitWith(1)
                     /\ UNCHANGED bindings
        ELSE IF ~ns.type.some \/ ~ns.scope.some \/ ~ns.description.some
        THEN /\ CwExitWith(1)
             /\ UNCHANGED bindings
        ELSE /\ bindings' = [commit_type |-> Bound(ns.type.val), scope |-> Bound(ns.scope.val),
                             description |-> Unbound,
                             descriptions |-> Bound(SplitDescriptions(ns.description.val)),
                             body |-> Bound(ns.body)]
             /\ cwPc' = "branch"
             /\ UNCHANGED cwExit
  /\ UNCHANGED <<argv, branch, tree, commits, pushed, groups, preview, attempted,
                 commits_executed, tree0, branch0, tagVars, rtVars, rlVars, ffVars>>

\* mutant: the checkout is skipped and the run goes on where it was
GitCheckoutSkipped(current, target) == current

\* git checkout <target>: the branch HEAD names afterwards
GitCheckout(current, target) == target

\* check_and_switch_to_develop (lines 84-113)
CwCheckBranch ==
  /\ cwPc = "branch"
  /\ IF branch = "develop"
     THEN /\ cwPc' = "status"
          /\ UNCHANGED <<branch, cwExit>>
     ELSE \E response \in {"s", "n"}, checkout_ok \in BOOLEAN :
            IF response = "s" /\ checkout_ok
            THEN /\ branch' = GitCheckout(branch, "develop")
                 /\ cwPc' = "status"
                 /\ UNCHANGED cwExit
            ELSE /\ CwExitWith(1)
                 /\ UNCHANGED branch
  /\ UNCHANGED <<argv, tree, commits, pushed, bindings, groups, preview, attempted,
                 commits_executed, tree0, branch0, tagVars, rtVars, rlVars, ffVars>>

\* mutant: past the end of the list the first description is reused
DescriptionFallsBackToFirst(descriptions, idx) ==
  IF idx <= Len(descriptions) THEN descriptions[idx] ELSE descriptions[1]

\* desc_idx = min(idx - 1, len(descriptions) - 1), 0-based, with Python's
\* negative index: descriptions[-1] of an empty list raises IndexError
DescriptionFor(descriptions, idx) ==
  descriptions[Min(idx - 1, Len(descriptions) - 1) + 1]

\* mutant: the preview takes the description after the one of the position
PreviewOfNextDescription(b, keys) ==
  [i \in 1..Len(keys) |->
     [group |-> keys[i],
      msg |-> create_commit_message(b.commit_type.val, b.scope.val,
                                    DescriptionFor(b.descriptions.val, i + 1), b.body.val)]]

\* lines 491-499: the preview loop over sorted(groups.keys())
PreviewOf(b, keys) ==
  [i \in 1..Len(keys) |->
     [group |-> keys[i],
      msg |-> create_commit_message(b.commit_type.val, b.scope.val,
                                    DescriptionFor(b.descriptions.val, i), b.body.val)]]

\* lines 478-502: check_git_status, get_modified_files, grouping and the
\* preview loop.  Reading the unbound name `descriptions` (NameError) or
\* indexing an empty list (IndexError) ends the run with a traceback, exit 1.
CwPreview ==
  /\ cwPc = "status"
  /\ LET files == get_modified_files(tree)
         g == group_files_by_directory(files, bindings.scope.val = "*")
     IN IF files = {}
        THEN /\ CwExitWith(1)
             /\ UNCHANGED <<groups, preview>>
        ELSE /\ groups' = g
             /\ IF ~bindings.descriptions.bound \/ bindings.descriptions.val = <<>>
                THEN /\ CwExitWith(1)
                     /\ UNCHANGED preview
                ELSE /\ preview' = PreviewOf(bindings, SortedSeq(DOMAIN g))
                     /\ cwPc' = "confirm"
                     /\ UNCHANGED cwExit
  /\ UNCHANGED <<argv, branch, tree, commits, pushed, bindings, attempted,
                 commits_executed, tree0, branch0, tagVars, rtVars, rlVars, ffVars>>

\* confirm_action (lines 196-199, 505-507): only "s" proceeds
CwConfirm ==
  /\ cwPc = "confirm"
  /\ \E response \in {"s", "n"} :
       IF response = "s"
       THEN /\ cwPc' = "loop"
            /\ UNCHANGED cwExit
       ELSE CwExitWith(0)
  /\ UNCHANGED <<argv, branch, tree, commits, pushed, bindings, groups, preview,
                 attempted, commits_executed, tree0, branch0, tagVars, rtVars, rlVars, ffVars>>


(***************************************************************************)
(* Commit workflow: execute_commits                                        *)
(***************************************************************************)
\* list.reverse()
Reverse(s) == [i \in 1..Len(s) |-> s[Len(s) + 1 - i]]

\* mutant: the groups are walked in descending key order
GroupOrderDescending(g) == Reverse(SortedSeq(DOMAIN g))

\* sorted(groups.items()): the keys are distinct, so the order is by key
GroupOrder(g) == SortedSeq(DOMAIN g)

\* sorted({str(Path(f).parent) or '.' for f in files})
ParentDirs(files) == {PathParent(f) : f \in files}

\* mutant: a push publishes one commit more than origin had
GitPushDevelopOneCommit(published, made) == published + 1

\* git push origin develop (line 343): origin's develop becomes the local
\* develop, so every commit made so far is published
GitPushDevelop(published, made) == made

\* mutant: the pair is recorded once the commit exists, before the push
CwExecuteGroupRecordsBeforePush ==
  /\ cwPc = "loop"
  /\ Len(attempted) < Len(GroupOrder(groups))
  /\ LET group_idx == Len(attempted) + 1
         group == GroupOrder(groups)[group_idx]
         files == groups[group]
         t1 == GitAddUpdate(tree, ParentDirs(files))
         existing_files == {f \in files : PathExists(t1, f)}
         t2 == GitAdd(t1, existing_files)
         commit_msg == create_commit_message(bindings.commit_type.val, bindings.scope.val,
                          DescriptionFor(bindings.descriptions.val, group_idx),
                          bindings.body.val)
     IN /\ attempted' = Append(attempted, group)
        /\ \E add_u_ok, add_ok, commit_ok, push_ok \in BOOLEAN :
             IF ~add_u_ok
             THEN UNCHANGED <<tree, commits, pushed, commits_executed>>
             ELSE IF existing_files # {} /\ ~add_ok
             THEN /\ tree' = t1
                  /\ UNCHANGED <<commits, pushed, commits_executed>>
             ELSE IF StagedFiles(t2) = {} \/ ~commit_ok
             THEN /\ tree' = t2
                  /\ UNCHANGED <<commits, pushed, commits_executed>>
             ELSE /\ tree' = GitCommit(t2)
                  /\ commits' = Append(commits, [group |-> group, msg |-> commit_msg,
                                                 files |-> StagedFiles(t2)])
                  /\ commits_executed' = Append(commits_executed, <<commit_msg, group>>)
                  /\ IF push_ok
                     THEN pushed' = GitPushDevelop(pushed, Len(commits'))
                     ELSE UNCHANGED pushed
  /\ UNCHANGED <<argv, cwPc, branch, bindings, groups, preview, cwExit, tree0, branch0,
                 tagVars, rtVars, rlVars, ffVars>>

\* one iteration of the for loop (lines 302-349) for the next group in
\* order; each git command may fail, and every failure is a `continue`
CwExecuteGroup ==
  /\ cwPc = "loop"
  /\ Len(attempted) < Len(GroupOrder(groups))
  /\ LET group_idx == Len(attempted) + 1
         group == GroupOrder(groups)[group_idx]
         files == groups[group]
         t1 == GitAddUpdate(tree, ParentDirs(files))
         existing_files == {f \in files : PathExists(t1, f)}
         t2 == GitAdd(t1, existing_files)
         commit_msg == create_commit_message(bindings.commit_type.val, bindings.scope.val,
                          DescriptionFor(bindings.descriptions.val, group_idx),
                          bindings.body.val)
     IN /\ attempted' = Append(attempted, group)
        /\ \E add_u_ok, add_ok, commit_ok, push_ok \in BOOLEAN :
             IF ~add_u_ok
             THEN UNCHANGED <<tree, commits, pushed, commits_executed>>
             ELSE IF existing_files # {} /\ ~add_ok
             THEN /\ tree' = t1
                  /\ UNCHANGED <<commits, pushed, commits_executed>>
             ELSE IF StagedFiles(t2) = {} \/ ~commit_ok
             THEN /\ tree' = t2
                  /\ UNCHANGED <<commits, pushed, commits_executed>>
             ELSE /\ tree' = GitCommit(t2)
                  /\ commits' = Append(commits, [group |-> group, msg |-> commit_msg,
                                                 files |-> StagedFiles(t2)])
                  /\ IF push_ok
                     THEN /\ pushed' = GitPushDevelop(pushed, Len(commits'))
                          /\ commits_executed' =
                               Append(commits_executed, <<commit_msg, group>>)
                     ELSE UNCHANGED <<pushed, commits_executed>>
  /\ UNCHANGED <<argv, cwPc, branch, bindings, groups, preview, cwExit, tree0, branch0,
                 tagVars, rtVars, rlVars, ffVars>>

\* the loop is exhausted: display_summary and normal end of main (lines 511-514)
CwSummary ==
  /\ cwPc = "loop"
  /\ Len(attempted) = Len(GroupOrder(groups))
  /\ cwPc' = "done"
  /\ cwExit' = 0
  /\ UNCHANGED <<argv, branch, tree, commits, pushed, bindings, groups, preview,
                 attempted, commits_executed, tree0, branch0, tagVars, rtVars, rlVars, ffVars>>

NextCommit ==
  \/ CwParseArgs
  \/ CwCheckBranch
  \/ CwPreview
  \/ CwConfirm
  \/ CwExecuteGroup
  \/ CwSummary

SpecCommit == InitCommit /\ [][NextCommit]_vars

\* Runs that reach execute_commits by the flags form from develop, over
\* working trees whose changed files are all modifications of tracked files.
\* The script is one sequential process, so it always takes its next step.
InitCommitLoop ==
  /\ InitCommit
  /\ argv.form = "flags"
  /\ argv.body = NoBody
  /\ argv.description = DescriptionArg(1)
  /\ branch = "develop"
  /\ \A f \in Files : tree[f] \in {Clean, Modified}

SpecCommitLoop == InitCommitLoop /\ [][NextCommit]_vars /\ WF_vars(NextCommit)


(***************************************************************************)
(* Commit workflow: properties                                             *)
(***************************************************************************)
\* the files of the universe that are members of group k
GroupMemberFiles(k) == UNION {EntryFiles(p) : p \in groups[k]}

\* C1: with a non-wildcard scope, every commit created for a group contains
\* changes of that group's member files only, whatever the groups, their
\* order and the earlier failures.
C1_CommitHoldsOnlyOwnGroup ==
  argv.scope # "*" =>
    \A i \in 1..Len(commits) : commits[i].files \subseteq GroupMemberFiles(commits[i].group)

\* s is strictly ascending in the order of Python's str comparison
StrictlyAscending(s) == \A i, j \in 1..Len(s) : i < j => StrLess(s[i], s[j])

\* every group has been attempted exactly once, in lexicographic key order
AllGroupsAttemptedInOrder ==
  /\ Range(attempted) = DOMAIN groups
  /\ Len(attempted) = Cardinality(DOMAIN groups)
  /\ StrictlyAscending(attempted)

\* C2: once execute_commits runs, the loop terminates having attempted each
\* group exactly once in lexicographic order of group key, whichever of
\* staging, commit or push failed for earlier groups.
C2_EachGroupAttemptedOnceInOrder ==
  (cwPc = "loop") ~> (cwPc = "done" /\ AllGroupsAttemptedInOrder)

\* C2 witness: three groups, the first two failed, the third was still
\* attempted and fully succeeded
C2_Witness ==
  /\ cwPc = "done"
  /\ Len(attempted) = 3
  /\ commits_executed # <<>>
  /\ Len(commits_executed) = 1
  /\ commits_executed[1][2] = attempted[3]

Declined == cwPc = "exit" /\ cwExit = 0

FlagsBindings ==
  [commit_type |-> Bound(argv.type), scope |-> Bound(argv.scope),
   description |-> Unbound,
   descriptions |-> Bound(SplitDescriptions(argv.description)),
   body |-> Bound(argv.body)]

\* C4: the positional string "T,S,D[,B]" produces the same preview (and so
\* the same commits) as --type T --scope S --description D [--body B] on
\* the same repository state.
C4_PositionalEqualsFlags ==
  (argv.form = "positional" /\ cwPc \in {"confirm", "loop", "done", "exit"}
     /\ DOMAIN groups # {})
    => preview = PreviewOf(FlagsBindings, GroupOrder(groups))


(***************************************************************************)
(* Tags and history, as TagRebuilder and ReleaseManager see them           *)
(***************************************************************************)
TagLegacy == <<"r", "e", "l", "e", "a", "s", "e", "-", "1">>
TagV002   == <<"v", "0", ".", "0", ".", "2">>
TagBeta   == <<"b", "e", "t", "a">>

\* a tag that exists before the run
OldTag(target) == [target |-> target, msg |-> <<"o", "l", "d">>]

\* git tag -d / git push origin :refs/tags/<name>
TagDelete(tags, name) == [n \in DOMAIN tags \ {name} |-> tags[n]]

\* git tag -a <name> -m <msg> <target>
TagPut(tags, name, tag) ==
  [n \in DOMAIN tags \cup {name} |-> IF n = name THEN tag ELSE tags[n]]

\* git push origin --force --tags: every local tag overwrites the remote's
PushForceTags(remote, local) ==
  [n \in DOMAIN remote \cup DOMAIN local |->
     IF n \in DOMAIN local THEN local[n] ELSE remote[n]]

\* git fetch origin: tags are auto-followed, i.e. a remote tag is copied
\* when it points into the fetched history and its name is free locally
FetchTags(local, remote, reachable) ==
  [n \in DOMAIN local \cup {r \in DOMAIN remote : remote[r].target \in reachable} |->
     IF n \in DOMAIN local THEN local[n] ELSE remote[n]]

\* git tag -l '<prefix>*', in refname order
TagList(tags, prefix) == SortedSeq({n \in DOMAIN tags : IsPrefix(prefix, n)})

LegacyPrefix == <<"r", "e", "l", "e", "a", "s", "e", "-">>
SemverPrefix == <<"v">>

SubjectReleased == <<"r", "e", "l", "e", "a", "s", "e", "d">>
SubjectFix      == <<"f", "i", "x">>

PlainHashes   == <<"h1", "h2", "h3", "h4", "h5", "h6">>
SpecialHashes == <<"0dab4c5a45cc07eddcbf4bd17519f48c43a0cc15",
                   "dc393b3a49570ec5e9dc2e8759659392d77e7340",
                   "54549ca55bd69301cd66c83c7cf6c226005fdd0c">>
SPECIAL_RELEASE_HASHES == Range(SpecialHashes)

\* a commit that no branch of origin reaches
OffBranchHash == "x0"

MaxCommits == 3

\* the i-th commit of main's first-parent history, of the given kind
CommitOfKind(i, kind) ==
  [hash    |-> IF kind = "special" THEN SpecialHashes[i] ELSE PlainHashes[i],
   subject |-> IF kind = "release" THEN SubjectReleased ELSE SubjectFix]

Histories ==
  UNION {{[i \in 1..n |-> CommitOfKind(i, k[i])] :
            k \in {kk \in [1..n -> {"release", "plain", "special"}] :
                     \A i \in 1..n : kk[i] = "special" => i <= Len(SpecialHashes)}} :
         n \in 1..MaxCommits}

(***************************************************************************)
(* TagRebuilder: helpers                                                   *)
(***************************************************************************)
\* [[ "$s" == *sub* ]]
Contains(s, sub) ==
  \E i \in 1..(Len(s) - Len(sub) + 1) : SubSeq(s, i, i + Len(sub) - 1) = sub

\* one line of git log --format='%H %s'
LogLine(c) == <<c.hash, " ">> \o c.subject

FirstSpace(line) ==
  LET I == {i \in 1..Len(line) : line[i] = " "}
  IN IF I = {} THEN Len(line) + 1 ELSE CHOOSE i \in I : \A j \in I : i <= j

\* commit_hash="${line%% *}"
LineHash(line) == SubSeq(line, 1, FirstSpace(line) - 1)

\* subject="${line#* }"
LineSubject(line) ==
  IF FirstSpace(line) > Len(line) THEN line
  ELSE SubSeq(line, FirstSpace(line) + 1, Len(line))

\* is_special_release (lines 172-181)
is_special_release(h) == \E sh \in SPECIAL_RELEASE_HASHES : h = <<sh>>

ReleaseWord == <<"r", "e", "l", "e", "a", "s", "e">>

\* lines 189-198: the hashes of the release commits, oldest first
RECURSIVE CollectReleaseCommits(_)
CollectReleaseCommits(lines) ==
  IF lines = <<>> THEN <<>>
  ELSE LET line == Head(lines)
           rest == CollectReleaseCommits(Tail(lines))
       IN IF Contains(LineSubject(line), ReleaseWord) \/ is_special_release(LineHash(line))
          THEN LineHash(line) \o rest
          ELSE rest

DigitChars == <<"0", "1", "2", "3", "4", "5", "6", "7", "8", "9">>

\* printf '%d'
RECURSIVE Decimal(_)
Decimal(n) ==
  IF n < 10 THEN <<DigitChars[n + 1]>>
  ELSE Decimal(n \div 10) \o <<DigitChars[(n % 10) + 1]>>

\* tag=$(printf 'v0.0.%d' "$idx")
RetagName(idx) == <<"v", "0", ".", "0", ".">> \o Decimal(idx)

\* -m "Release $tag"
RetagMessage(tag) == <<"R", "e", "l", "e", "a", "s", "e", " ">> \o tag


(***************************************************************************)
(* TagRebuilder: git-release-retag.sh                                      *)
(***************************************************************************)
TagPool == {TagLegacy, TagV002, TagBeta}

\* where a tag of the pool is when the script starts; "both_moved": in the
\* clone and on origin, where it was moved to another commit since (git
\* fetch does not update a tag the clone already has)
TagSituations ==
  {sit \in [TagPool -> {"none", "local", "remote_off_branch", "remote", "both",
                        "both_moved"}] :
     /\ sit[TagBeta] \in {"none", "both", "both_moved"}
     /\ \A n \in TagPool \ {TagBeta} : sit[n] # "both_moved"}

RtEnvs ==
  {[inRepo |-> TRUE,  clean |-> TRUE,  hasMain |-> TRUE,  hasDevelop |-> TRUE],
   [inRepo |-> FALSE, clean |-> TRUE,  hasMain |-> TRUE,  hasDevelop |-> TRUE],
   [inRepo |-> TRUE,  clean |-> FALSE, hasMain |-> TRUE,  hasDevelop |-> TRUE],
   [inRepo |-> TRUE,  clean |-> TRUE,  hasMain |-> FALSE, hasDevelop |-> TRUE],
   [inRepo |-> TRUE,  clean |-> TRUE,  hasMain |-> TRUE,  hasDevelop |-> FALSE]}

CwIdle ==
  /\ argv = [form |-> "flags", type |-> "feat", scope |-> "utils",
             description |-> <<"d1">>, body |-> NoBody]
  /\ cwPc = "idle"
  /\ branch = "main"
  /\ tree = [f \in Files |-> Clean]
  /\ commits = <<>>
  /\ pushed = 0
  /\ bindings = NoBindings
  /\ groups = <<>>
  /\ preview = <<>>
  /\ attempted = <<>>
  /\ commits_executed = <<>>
  /\ cwExit = -1
  /\ tree0 = tree
  /\ branch0 = branch

InitRetag ==
  /\ rtArgs \in [yes : BOOLEAN]
  /\ rtEnv \in RtEnvs
  /\ history \in Histories
  /\ \E sit \in TagSituations :
       /\ localTags = [n \in {m \in TagPool : sit[m] \in {"local", "both", "both_moved"}} |->
                         OldTag(history[1].hash)]
       /\ remoteTags = [n \in {m \in TagPool : sit[m] \in {"remote_off_branch", "remote",
                                                            "both", "both_moved"}} |->
                          OldTag(IF sit[n] \in {"remote_off_branch", "both_moved"}
                                 THEN OffBranchHash ELSE history[1].hash)]
  /\ rtPc = "precheck"
  /\ release_tags = <<>>
  /\ semver_tags = <<>>
  /\ rtDone = 0
  /\ release_commits = <<>>
  /\ rtLog = <<>>
  /\ rtExit = -1
  /\ CwIdle
  /\ RlIdle
  /\ FfIdle

RtExitWith(code) ==
  /\ rtPc' = "exit"
  /\ rtExit' = code

\* mutant: the script does not look at the repository before it starts
RtPrecheckSkipped ==
  /\ rtPc = "precheck"
  /\ rtPc' = "update"
  /\ UNCHANGED <<rtArgs, rtEnv, history, rtLog, release_tags, semver_tags, rtDone,
                 release_commits, rtExit, tagVars, cwVars, rlVars, ffVars>>

\* lines 75-86: inside a work tree, and git status --porcelain is empty
RtPrecheck ==
  /\ rtPc = "precheck"
  /\ IF rtEnv.inRepo /\ rtEnv.clean
     THEN /\ rtPc' = "update"
          /\ UNCHANGED rtExit
     ELSE RtExitWith(1)
  /\ UNCHANGED <<rtArgs, rtEnv, history, rtLog, release_tags, semver_tags, rtDone,
                 release_commits, tagVars, cwVars, rlVars, ffVars>>

\* lines 88-106: fetch, update main (fatal when missing), update develop
\* when it resolves, return to main.  Under set -e a failing fetch,
\* checkout or pull of main ends the run.
RtUpdateBranches ==
  /\ rtPc = "update"
  /\ \E fetch_ok, main_ok \in BOOLEAN :
       IF fetch_ok /\ rtEnv.hasMain /\ main_ok
       THEN /\ localTags' = FetchTags(localTags, remoteTags,
                                      {history[i].hash : i \in 1..Len(history)})
            /\ rtPc' = "collect"
            /\ UNCHANGED rtExit
       ELSE /\ localTags' = IF fetch_ok
                            THEN FetchTags(localTags, remoteTags,
                                           {history[i].hash : i \in 1..Len(history)})
                            ELSE localTags
            /\ RtExitWith(1)
  /\ UNCHANGED <<rtArgs, rtEnv, history, rtLog, release_tags, semver_tags, rtDone,
                 release_commits, remoteTags, cwVars, rlVars, ffVars>>

\* the first phase after the confirmation whose tag list is not empty
RtPhaseAfter(phase, legacy, semver) ==
  IF phase = "confirm" /\ legacy # <<>> THEN "del_release"
  ELSE IF phase \in {"confirm", "del_release"} /\ semver # <<>> THEN "del_semver"
  ELSE "classify"

\* lines 108-125: the two tag lists are read once, before any deletion
RtCollect ==
  /\ rtPc = "collect"
  /\ release_tags' = TagList(localTags, LegacyPrefix)
  /\ semver_tags' = TagList(localTags, SemverPrefix)
  /\ rtPc' = "confirm"
  /\ UNCHANGED <<rtArgs, rtEnv, history, rtLog, rtDone, release_commits, rtExit,
                 tagVars, cwVars, rlVars, ffVars>>

\* lines 127-138: without --yes only the answers y / Y go on
RtConfirm ==
  /\ rtPc = "confirm"
  /\ \E answer \in {"y", "n"} :
       IF rtArgs.yes \/ answer = "y"
       THEN /\ rtPc' = RtPhaseAfter("confirm", release_tags, semver_tags)
            /\ UNCHANGED rtExit
       ELSE RtExitWith(0)
  /\ UNCHANGED <<rtArgs, rtEnv, history, rtLog, release_tags, semver_tags, rtDone,
                 release_commits, tagVars, cwVars, rlVars, ffVars>>

\* a deletion command that was run for tag t, and its exit status
RtRan(cmd, t, ok) == [cmd |-> cmd, tag |-> t, status |-> IF ok THEN 0 ELSE 1]

\* one iteration of a deletion loop for tag t: git tag -d "$t" || true, then
\* git push origin ":refs/tags/$t" || true.  The remote deletion fails when
\* the remote has no such tag, and may fail when it has; both are tolerated.
RtDeleteOne(t) ==
  /\ localTags' = TagDelete(localTags, t)
  /\ IF t \in DOMAIN remoteTags
     THEN \E push_ok \in BOOLEAN :
            /\ remoteTags' = IF push_ok THEN TagDelete(remoteTags, t) ELSE remoteTags
            /\ rtLog' = rtLog \o <<RtRan("tag_delete", t, t \in DOMAIN localTags),
                                   RtRan("push_delete", t, push_ok)>>
     ELSE /\ UNCHANGED remoteTags
          /\ rtLog' = rtLog \o <<RtRan("tag_delete", t, t \in DOMAIN localTags),
                                  RtRan("push_delete", t, FALSE)>>

\* mutant: the remote deletion is not followed by || true
RtDeleteReleaseTagFatal ==
  /\ rtPc = "del_release"
  /\ RtDeleteOne(release_tags[rtDone + 1])
  /\ IF rtLog'[Len(rtLog')].status # 0
     THEN /\ RtExitWith(1)
          /\ UNCHANGED rtDone
     ELSE /\ UNCHANGED rtExit
          /\ IF rtDone + 1 = Len(release_tags)
             THEN /\ rtPc' = RtPhaseAfter("del_release", release_tags, semver_tags)
                  /\ rtDone' = 0
             ELSE /\ rtDone' = rtDone + 1
                  /\ UNCHANGED rtPc
  /\ UNCHANGED <<rtArgs, rtEnv, history, release_tags, semver_tags, release_commits,
                 cwVars, rlVars, ffVars>>

\* lines 140-149
RtDeleteReleaseTag ==
  /\ rtPc = "del_release"
  /\ RtDeleteOne(release_tags[rtDone + 1])
  /\ IF rtDone + 1 = Len(release_tags)
     THEN /\ rtPc' = RtPhaseAfter("del_release", release_tags, semver_tags)
          /\ rtDone' = 0
     ELSE /\ rtDone' = rtDone + 1
          /\ UNCHANGED rtPc
  /\ UNCHANGED <<rtArgs, rtEnv, history, release_tags, semver_tags, release_commits,
                 rtExit, cwVars, rlVars, ffVars>>

\* lines 151-160
RtDeleteSemverTag ==
  /\ rtPc = "del_semver"
  /\ RtDeleteOne(semver_tags[rtDone + 1])
  /\ IF rtDone + 1 = Len(semver_tags)
     THEN /\ rtPc' = "classify"
          /\ rtDone' = 0
     ELSE /\ rtDone' = rtDone + 1
          /\ UNCHANGED rtPc
  /\ UNCHANGED <<rtArgs, rtEnv, history, release_tags, semver_tags, release_commits,
                 rtExit, cwVars, rlVars, ffVars>>

\* mutant: an empty list of release commits does not end the run
RtClassifyGoesOn ==
  /\ rtPc = "classify"
  /\ LET found == CollectReleaseCommits([i \in 1..Len(history) |-> LogLine(history[i])])
     IN /\ release_commits' = found
        /\ rtPc' = IF found = <<>> THEN "push" ELSE "tag"
  /\ UNCHANGED <<rtArgs, rtEnv, history, rtLog, release_tags, semver_tags, rtDone, rtExit,
                 tagVars, cwVars, rlVars, ffVars>>

\* lines 162-212: classify main's first-parent history, oldest first
RtClassify ==
  /\ rtPc = "classify"
  /\ LET found == CollectReleaseCommits([i \in 1..Len(history) |-> LogLine(history[i])])
     IN /\ release_commits' = found
        /\ IF found = <<>>
           THEN RtExitWith(1)
           ELSE /\ rtPc' = "tag"
                /\ UNCHANGED rtExit
  /\ UNCHANGED <<rtArgs, rtEnv, history, rtLog, release_tags, semver_tags, rtDone,
                 tagVars, cwVars, rlVars, ffVars>>

\* mutant: idx starts at 0
RetagIndexFromZero(done) == done

\* idx=1 ... idx=$((idx+1)): the index of the tag created after `done` tags
RetagIndex(done) == done + 1

\* mutant: every tag is sent to origin as soon as it is created
RtCreateTagPushesEach ==
  /\ rtPc = "tag"
  /\ LET m == release_commits[rtDone + 1]
         tag == RetagName(RetagIndex(rtDone))
     IN \E tag_ok \in BOOLEAN :
          IF tag_ok /\ tag \notin DOMAIN localTags
          THEN /\ localTags' = TagPut(localTags, tag,
                                      [target |-> m, msg |-> RetagMessage(tag)])
               /\ remoteTags' = PushForceTags(remoteTags, localTags')
               /\ rtDone' = rtDone + 1
               /\ rtPc' = IF rtDone + 1 = Len(release_commits) THEN "push" ELSE "tag"
               /\ UNCHANGED rtExit
          ELSE /\ RtExitWith(1)
               /\ UNCHANGED <<localTags, remoteTags, rtDone>>
  /\ UNCHANGED <<rtArgs, rtEnv, history, rtLog, release_tags, semver_tags, release_commits,
                 cwVars, rlVars, ffVars>>

\* lines 216-223, one iteration: git tag -a fails when the name is taken
RtCreateTag ==
  /\ rtPc = "tag"
  /\ LET m == release_commits[rtDone + 1]
         tag == RetagName(RetagIndex(rtDone))
     IN \E tag_ok \in BOOLEAN :
          IF tag_ok /\ tag \notin DOMAIN localTags
          THEN /\ localTags' = TagPut(localTags, tag,
                                      [target |-> m, msg |-> RetagMessage(tag)])
               /\ rtDone' = rtDone + 1
               /\ rtPc' = IF rtDone + 1 = Len(release_commits) THEN "push" ELSE "tag"
               /\ UNCHANGED rtExit
          ELSE /\ RtExitWith(1)
               /\ UNCHANGED <<localTags, rtDone>>
  /\ UNCHANGED <<rtArgs, rtEnv, history, rtLog, release_tags, semver_tags, release_commits,
                 remoteTags, cwVars, rlVars, ffVars>>

\* lines 225-237: git push origin --force --tags, then the read-only summary
RtPushTags ==
  /\ rtPc = "push"
  /\ \E push_ok \in BOOLEAN :
       IF push_ok
       THEN /\ remoteTags' = PushForceTags(remoteTags, localTags)
            /\ rtPc' = "done"
            /\ rtExit' = 0
       ELSE /\ RtExitWith(1)
            /\ UNCHANGED remoteTags
  /\ UNCHANGED <<rtArgs, rtEnv, history, rtLog, release_tags, semver_tags, rtDone,
                 release_commits, localTags, cwVars, rlVars, ffVars>>

NextRetag ==
  \/ RtPrecheck
  \/ RtUpdateBranches
  \/ RtCollect
  \/ RtConfirm
  \/ RtDeleteReleaseTag
  \/ RtDeleteSemverTag
  \/ RtClassify
  \/ RtCreateTag
  \/ RtPushTags

SpecRetag == InitRetag /\ [][NextRetag]_vars


(***************************************************************************)
(* TagRebuilder: properties                                                *)
(***************************************************************************)
RtSucceeded == rtPc = "done" /\ rtExit = 0

\* a release point: the subject contains "release" or the hash is in the
\* override set
IsReleasePoint(c) ==
  Contains(c.subject, ReleaseWord) \/ c.hash \in SPECIAL_RELEASE_HASHES

\* the classified commits of main's first-parent history, oldest first
ReleasePoints == SelectSeq(history, IsReleasePoint)

\* v0.0.1, v0.0.2, ... written out
CanonicalTags ==
  <<<<"v", "0", ".", "0", ".", "1">>, <<"v", "0", ".", "0", ".", "2">>,
    <<"v", "0", ".", "0", ".", "3">>, <<"v", "0", ".", "0", ".", "4">>,
    <<"v", "0", ".", "0", ".", "5">>, <<"v", "0", ".", "0", ".", "6">>>>

CanonicalPrefix == <<"v", "0", ".", "0", ".">>

\* the names of the tags of `tags` that start with prefix
NamesWithPrefix(tags, prefix) == {n \in DOMAIN tags : IsPrefix(prefix, n)}

C6_RemoteHoldsExactlyCanonicalTags ==
  RtSucceeded =>
    /\ NamesWithPrefix(remoteTags, LegacyPrefix) = {}
    /\ NamesWithPrefix(remoteTags, SemverPrefix)
         = {CanonicalTags[i] : i \in 1..Len(ReleasePoints)}


(***************************************************************************)
(* ReleaseManager: the semantic version computation (lines 316-343)        *)
(***************************************************************************)
Digits == Range(DigitChars)

\* the character at position i, "" past the end (the terminating NUL)
CharAt(s, i) == IF i <= Len(s) THEN s[i] ELSE ""

CodeOf(c) == IF c = "" THEN 0 ELSE Code[c]

\* git's versioncmp classes: 0 = other, 1 = digit 1-9, 2 = the digit 0
CharClass(c) == IF c = "0" THEN 2 ELSE IF c \in Digits THEN 1 ELSE 0

\* versioncmp's next_state table, indexed by state + class (states 0,3,6,9)
VcNextState == <<0, 3, 9,  0, 3, 3,  0, 6, 6,  0, 6, 9>>

\* versioncmp's result_type table, indexed by (state + class1) * 3 + class2;
\* 2 = compare the characters, 3 = compare the lengths of the digit runs
VcResultType ==
  <<2, 2, 2, 2, 3, 2, 2, 2, 2,
    2, -1, -1, 1, 3, 3, 1, 3, 3,
    2, 2, 2, 2, 2, 2, 2, 2, 2,
    2, 1, 1, -1, 2, 2, -1, 2, 2>>

\* the LEN case: the longer run of digits after position j wins
RECURSIVE VcLongerRun(_, _, _, _)
VcLongerRun(a, b, j, diff) ==
  IF CharAt(a, j) \in Digits
  THEN IF CharAt(b, j) \notin Digits THEN 1 ELSE VcLongerRun(a, b, j + 1, diff)
  ELSE IF CharAt(b, j) \in Digits THEN -1 ELSE diff

RECURSIVE VcScan(_, _, _, _)
VcScan(a, b, i, state) ==
  LET c1 == CharAt(a, i)
      c2 == CharAt(b, i)
      diff == CodeOf(c1) - CodeOf(c2)
  IN IF diff = 0
     THEN IF c1 = "" THEN 0
          ELSE VcScan(a, b, i + 1, VcNextState[state + 1] + CharClass(CharAt(a, i + 1)))
     ELSE LET rt == VcResultType[state * 3 + CharClass(c2) + 1]
          IN IF rt = 2 THEN diff
             ELSE IF rt = 3 THEN VcLongerRun(a, b, i + 1, diff)
             ELSE rt

\* git's versioncmp(a, b), the order of --sort=version:refname
VersionCmp(a, b) == VcScan(a, b, 1, CharClass(CharAt(a, 1)))

\* git tag --list 'v*' --sort=-version:refname
RECURSIVE VersionSortDescending(_)
VersionSortDescending(S) ==
  IF S = {} THEN <<>>
  ELSE LET m == CHOOSE x \in S : \A y \in S \ {x} : VersionCmp(x, y) > 0
       IN <<m>> \o VersionSortDescending(S \ {m})

IsDigitString(s) == s # <<>> /\ \A i \in 1..Len(s) : s[i] \in Digits

\* the three fields of a tag after its first character
SemverFields(tag) == Split(Tail(tag), ".")

\* [[ "$tag" =~ ^v[0-9]+\.[0-9]+\.[0-9]+$ ]]
MatchesSemver(tag) ==
  /\ tag # <<>>
  /\ tag[1] = "v"
  /\ Len(SemverFields(tag)) = 3
  /\ \A i \in 1..3 : IsDigitString(SemverFields(tag)[i])

\* lines 318-324: the first tag of the sorted list that matches, <<>> if none
RECURSIVE FirstSemver(_)
FirstSemver(sorted) ==
  IF sorted = <<>> THEN <<>>
  ELSE IF MatchesSemver(Head(sorted)) THEN Head(sorted)
  ELSE FirstSemver(Tail(sorted))

DigitValue(c) == CHOOSE d \in 0..9 : DigitChars[d + 1] = c

RECURSIVE BaseValue(_, _)
BaseValue(s, base) ==
  IF s = <<>> THEN 0
  ELSE BaseValue(SubSeq(s, 1, Len(s) - 1), base) * base + DigitValue(s[Len(s)])

\* how bash arithmetic reads a digit string: a leading 0 makes it octal, and
\* an 8 or 9 in an octal constant is an error that ends the script
BashNumber(s) ==
  IF Len(s) > 1 /\ s[1] = "0"
  THEN IF \E i \in 1..Len(s) : s[i] \in {"8", "9"}
       THEN [ok |-> FALSE, val |-> 0]
       ELSE [ok |-> TRUE, val |-> BaseValue(s, 8)]
  ELSE [ok |-> TRUE, val |-> BaseValue(s, 10)]

SemverName(major, minor, patch) == <<"v">> \o major \o <<".">> \o minor \o <<".">> \o patch

\* lines 316-343: [ok, tag]; ok is FALSE when the script dies in the
\* arithmetic or reports a malformed tag
NextSemverTag(tags) ==
  LET last_semver_tag == FirstSemver(VersionSortDescending(NamesWithPrefix(tags, SemverPrefix)))
  IN IF last_semver_tag = <<>>
     THEN [ok |-> TRUE, tag |-> SemverName(<<"0">>, <<"0">>, <<"1">>)]
     ELSE IF ~MatchesSemver(last_semver_tag)
     THEN [ok |-> FALSE, tag |-> <<>>]
     ELSE LET f == SemverFields(last_semver_tag)
              patch == BashNumber(f[3])
          IN IF patch.ok
             THEN [ok |-> TRUE, tag |-> SemverName(f[1], f[2], Decimal(patch.val + 1))]
             ELSE [ok |-> FALSE, tag |-> <<>>]


(***************************************************************************)
(* ReleaseManager: git-release.sh                                          *)
(***************************************************************************)
RELEASE_VALID_SCOPES == {"dag", "controle", "sql", "docs", "utils", "config",
                         "operators", "monitoring", "scripts", "release"}

\* words made of the characters [a-z0-9-] only
ScopeWords == RELEASE_VALID_SCOPES \cup {"core"}

\* mutant: the parenthesised scope is mandatory
TitleRequiresScope(title) ==
  /\ Len(title) >= 7
  /\ title[1] \in VALID_TYPES
  /\ title[2] = "(" /\ title[3] \in ScopeWords /\ title[4] = ")"
  /\ title[5] = ":" /\ title[6] = " "

\* [[ $merge_title =~ ^(feat|...|perf)(\([a-z0-9\-]+\))?:\ .+ ]]
TitleMatchesGrammar(title) ==
  /\ Len(title) >= 4
  /\ title[1] \in VALID_TYPES
  /\ \/ title[2] = ":" /\ title[3] = " "
     \/ /\ Len(title) >= 7
        /\ title[2] = "(" /\ title[3] \in ScopeWords /\ title[4] = ")"
        /\ title[5] = ":" /\ title[6] = " "

RlArgvs ==
  LET e(t, sc, d, b, raw, empty) ==
        {[no_tag |-> n, type |-> t, scope |-> sc, description |-> d, body |-> b,
          raw_spec |-> raw, empty_flags |-> empty] : n \in BOOLEAN}
      a(t, sc, d, b, raw) == e(t, sc, d, b, raw, {})
  IN a(<<"chore">>, <<"release">>, <<"d1">>, <<>>, <<>>)
     \cup a(<<>>, <<>>, <<>>, <<"b1">>, <<"chore", ",", "release", ",", "d1">>)
     \cup e(<<>>, <<>>, <<>>, <<>>, <<"chore", ",", "release", ",", "d1">>, {"body"})
     \cup a(<<"chore">>, <<"release">>, <<"d1">>, <<"b1">>, <<>>)
     \cup a(<<>>, <<>>, <<>>, <<>>, <<"chore", ",", "release", ",", "d1">>)
     \cup a(<<>>, <<>>, <<>>, <<>>, <<"docs", "(", "docs", ")", ":", " ", "d1">>)
     \cup a(<<"chore">>, <<>>, <<>>, <<>>, <<"chore", ",", "release", ",", "d1">>)
     \cup a(<<>>, <<>>, <<>>, <<>>, <<>>)
     \cup a(<<"oops">>, <<"release">>, <<"d1">>, <<>>, <<>>)
     \cup a(<<>>, <<>>, <<>>, <<>>, <<"oops", ":", " ", "d1">>)
     \cup a(<<>>, <<>>, <<>>, <<>>, <<"fix", ":", " ", "d1">>)
     \cup a(<<>>, <<>>, <<>>, <<>>, <<"docs", "(", "docs", ")", ":", " ", "d1", ",", "d2">>)

\* commits of the scenario: c1 is on both branches, d1 and d2 are work on
\* develop, p0 is a commit origin/main has and the clone has not pulled
Ref(head, reach) == [head |-> head, reach |-> reach]

SubjectOf(c) ==
  CASE c = "c1" -> <<"init">> [] c = "d1" -> <<"work1">> [] c = "d2" -> <<"work2">>
    [] c = "p0" -> <<"hotfix">> [] OTHER -> <<"merge">>

\* newest first, as git log lists them
LogOrder == <<"m1", "d2", "d1", "p0", "c1">>

TagV009 == <<"v", "0", ".", "0", ".", "9">>
TagV0010 == <<"v", "0", ".", "0", ".", "1", "0">>
TagV12010 == <<"v", "1", ".", "2", ".", "0", "1", "0">>
TagV1208 == <<"v", "1", ".", "2", ".", "0", "8">>
TagV99 == <<"v", "9", ".", "9">>
ReleaseTagPool == {TagV009, TagV0010, TagV12010, TagV1208, TagV99}

InitRelease ==
  /\ rlArgs \in RlArgvs
  /\ rlPc = "args"
  /\ rlClean \in BOOLEAN
  /\ rlBranch \in {"develop", "main"}
  /\ \E ahead, dev_extra, main_extra \in BOOLEAN :
       LET dev == {"c1"} \cup (IF ahead THEN {"d1"} ELSE {})
       IN /\ rlLocal = [b \in {"main", "develop"} |->
                          IF b = "main" THEN Ref("c1", {"c1"})
                          ELSE Ref(IF ahead THEN "d1" ELSE "c1", dev)]
          /\ rlRemote = [b \in {"main", "develop"} |->
                           IF b = "main"
                           THEN (IF main_extra THEN Ref("p0", {"c1", "p0"})
                                 ELSE Ref("c1", {"c1"}))
                           ELSE (IF dev_extra THEN Ref("d2", dev \cup {"d2"})
                                 ELSE Ref(IF ahead THEN "d1" ELSE "c1", dev))]
  /\ \E present \in SUBSET ReleaseTagPool, unfetched \in BOOLEAN :
       /\ localTags = [n \in present |-> OldTag("c1")]
       /\ remoteTags = IF unfetched THEN TagPut(localTags, TagLegacy, OldTag("c1"))
                       ELSE localTags
  /\ merge_title = <<>>
  /\ commit_body = <<>>
  /\ semver_tag = <<>>
  /\ rlMerge = NoMerge
  /\ rlLog = <<>>
  /\ rlExit = -1
  /\ localTags0 = localTags
  /\ remoteTags0 = remoteTags
  /\ runs = <<>>
  /\ CwIdle
  /\ RtIdle
  /\ FfIdle

\* an entry of the log: the step, whether the script went on after it, and
\* the exit status of its git command; for a command run as a statement of
\* its own the script goes on exactly when the status is 0
RlRan(cmd, ok) == [cmd |-> cmd, ok |-> ok, status |-> IF ok THEN 0 ELSE 1]

RlExitWith(code) ==
  /\ rlPc' = "exit"
  /\ rlExit' = code

\* mutant: the tag is created and pushed before main is pushed
RlAfterTagFirst(step, create_tag) ==
  CASE step = "clean" -> "fetch"
    [] step = "fetch" -> "checkout_develop"
    [] step = "checkout_develop" -> "pull_develop"
    [] step = "pull_develop" -> "checkout_main"
    [] step = "checkout_main" -> "pull_main"
    [] step = "pull_main" -> "merge"
    [] step = "merge" -> IF create_tag THEN "compute_tag" ELSE "push_main"
    [] step = "compute_tag" -> "verify_tag"
    [] step = "verify_tag" -> "tag"
    [] step = "tag" -> "push_tag"
    [] step = "push_tag" -> "push_main"
    [] step = "push_main" -> "resync_checkout_main"
    [] step = "resync_checkout_main" -> "resync_pull_main"
    [] step = "resync_pull_main" -> "resync_checkout_develop"
    [] step = "resync_checkout_develop" -> "resync_pull_develop"
    [] step = "resync_pull_develop" -> "done"

\* mutant: the tag block runs whether or not --no-tag was given
RlAfterTagAlways(step, create_tag) ==
  CASE step = "clean" -> "fetch"
    [] step = "fetch" -> "checkout_develop"
    [] step = "checkout_develop" -> "pull_develop"
    [] step = "pull_develop" -> "checkout_main"
    [] step = "checkout_main" -> "pull_main"
    [] step = "pull_main" -> "merge"
    [] step = "merge" -> "push_main"
    [] step = "push_main" -> "compute_tag"
    [] step = "compute_tag" -> "verify_tag"
    [] step = "verify_tag" -> "tag"
    [] step = "tag" -> "push_tag"
    [] step = "push_tag" -> "resync_checkout_main"
    [] step = "resync_checkout_main" -> "resync_pull_main"
    [] step = "resync_pull_main" -> "resync_checkout_develop"
    [] step = "resync_checkout_develop" -> "resync_pull_develop"
    [] step = "resync_pull_develop" -> "done"

\* the order of the script's commands (lines 271-367)
RlAfter(step, create_tag) ==
  CASE step = "clean" -> "fetch"
    [] step = "fetch" -> "checkout_develop"
    [] step = "checkout_develop" -> "pull_develop"
    [] step = "pull_develop" -> "checkout_main"
    [] step = "checkout_main" -> "pull_main"
    [] step = "pull_main" -> "merge"
    [] step = "merge" -> "push_main"
    [] step = "push_main" -> IF create_tag THEN "compute_tag" ELSE "resync_checkout_main"
    [] step = "compute_tag" -> "verify_tag"
    [] step = "verify_tag" -> "tag"
    [] step = "tag" -> "push_tag"
    [] step = "push_tag" -> "resync_checkout_main"
    [] step = "resync_checkout_main" -> "resync_pull_main"
    [] step = "resync_pull_main" -> "resync_checkout_develop"
    [] step = "resync_checkout_develop" -> "resync_pull_develop"
    [] step = "resync_pull_develop" -> "done"

\* mutant: --body does not count as a flag
rl_has_flags_without_body(a) ==
  a.type # <<>> \/ a.scope # <<>> \/ a.description # <<>>

\* lines 170-173: [[ -n "$commit_type" || -n "$commit_scope" ||
\* -n "$commit_description" || -n "$commit_body" ]]; a flag given with an
\* empty value (a.empty_flags) leaves its variable empty, as if not given
rl_has_flags(a) ==
  a.type # <<>> \/ a.scope # <<>> \/ a.description # <<>> \/ a.body # <<>>

\* lines 175-178: [[ -n "$raw_spec" ]]
rl_has_positional(a) == a.raw_spec # <<>>

\* lines 170-256: exclusivity of the input forms, parsing and validation;
\* [ok, title, body]
RlParse(a) ==
  LET has_flags == rl_has_flags(a)
      has_positional == rl_has_positional(a)
      comma == has_positional /\ "," \in Range(a.raw_spec)
      parts == SplitMax(a.raw_spec, ",", 3)
      p(i) == IF i <= Len(parts) THEN Strip(parts[i]) ELSE <<>>
      type == IF comma THEN p(1) ELSE a.type
      scope == IF comma THEN p(2) ELSE a.scope
      description == IF comma THEN p(3) ELSE a.description
      body == IF comma THEN p(4) ELSE a.body
      legacy_title == IF has_positional /\ ~comma THEN a.raw_spec ELSE <<>>
      title == IF legacy_title # <<>> THEN legacy_title
               ELSE IF type # <<>>
                    THEN type \o <<"(">> \o scope \o <<")", ":", " ">> \o description
                    ELSE <<>>
      bad == [ok |-> FALSE, title |-> <<>>, body |-> <<>>]
  IN IF has_flags /\ has_positional THEN bad
     ELSE IF ~has_flags /\ ~has_positional THEN bad
     ELSE IF comma /\ (p(1) = <<>> \/ p(2) = <<>> \/ p(3) = <<>>) THEN bad
     ELSE IF has_flags /\ (a.type = <<>> \/ a.scope = <<>> \/ a.description = <<>>) THEN bad
     ELSE IF type # <<>> /\ (Len(type) # 1 \/ type[1] \notin VALID_TYPES) THEN bad
     ELSE IF type # <<>> /\ (Len(scope) # 1 \/ scope[1] \notin RELEASE_VALID_SCOPES) THEN bad
     ELSE IF title = <<>> THEN bad
     ELSE IF ~TitleMatchesGrammar(title) THEN bad
     ELSE [ok |-> TRUE, title |-> title, body |-> body]

RlParseArgs ==
  /\ rlPc = "args"
  /\ LET r == RlParse(rlArgs)
     IN IF r.ok
        THEN /\ merge_title' = r.title
             /\ commit_body' = r.body
             /\ rlPc' = "clean"
             /\ UNCHANGED rlExit
        ELSE /\ RlExitWith(1)
             /\ UNCHANGED <<merge_title, commit_body>>
  /\ UNCHANGED <<rlArgs, runs, rlClean, rlBranch, rlLocal, rlRemote, semver_tag,
                 rlMerge, rlLog, localTags0, remoteTags0, localTags,
                 remoteTags, cwVars, rtVars, ffVars>>

\* mutant: the state of the working tree is not looked at
RlCheckCleanSkipped ==
  /\ rlPc = "clean"
  /\ rlPc' = RlAfter("clean", ~rlArgs.no_tag)
  /\ UNCHANGED <<rlArgs, runs, rlClean, rlBranch, rlLocal, rlRemote, merge_title,
                 commit_body, semver_tag, rlMerge, rlLog, rlExit, localTags0,
                 remoteTags0, localTags, remoteTags, cwVars, rtVars, ffVars>>

\* lines 266-275: warn when not on develop; a dirty working tree is fatal
RlCheckClean ==
  /\ rlPc = "clean"
  /\ IF rlClean
     THEN /\ rlPc' = RlAfter("clean", ~rlArgs.no_tag)
          /\ UNCHANGED rlExit
     ELSE RlExitWith(1)
  /\ UNCHANGED <<rlArgs, runs, rlClean, rlBranch, rlLocal, rlRemote, merge_title,
                 commit_body, semver_tag, rlMerge, rlLog, localTags0,
                 remoteTags0, localTags, remoteTags, cwVars, rtVars, ffVars>>

\* git pull origin <branch> on a branch that is not ahead: fast-forward
GitPull(local, remote) == IF local.reach \subseteq remote.reach THEN remote ELSE local

\* mutant: the push reports success and leaves the remote branch as it was
GitPushBranchDropped(remote, local) == remote

\* git push origin <branch>
GitPushBranch(remote, local) == IF remote.reach \subseteq local.reach THEN local ELSE remote

\* line 278: git fetch --quiet origin
RlFetch ==
  /\ rlPc = "fetch"
  /\ \E ok \in BOOLEAN :
       /\ rlLog' = Append(rlLog, RlRan("fetch", ok))
       /\ IF ok
          THEN /\ rlPc' = RlAfter("fetch", ~rlArgs.no_tag)
               /\ UNCHANGED rlExit
               /\ localTags' = FetchTags(localTags, remoteTags,
                                      rlRemote["main"].reach \cup rlRemote["develop"].reach)
          ELSE /\ RlExitWith(1)
               /\ UNCHANGED <<localTags>>
  /\ UNCHANGED <<rlArgs, runs, rlClean, rlBranch, rlLocal, rlRemote, merge_title,
                 commit_body, semver_tag, rlMerge, localTags0, remoteTags0,
                 remoteTags, cwVars, rtVars, ffVars>>

\* line 281: git checkout develop
RlCheckoutDevelop ==
  /\ rlPc = "checkout_develop"
  /\ \E ok \in BOOLEAN :
       /\ rlLog' = Append(rlLog, RlRan("checkout_develop", ok))
       /\ IF ok
          THEN /\ rlPc' = RlAfter("checkout_develop", ~rlArgs.no_tag)
               /\ UNCHANGED rlExit
               /\ rlBranch' = "develop"
          ELSE /\ RlExitWith(1)
               /\ UNCHANGED <<rlBranch>>
  /\ UNCHANGED <<rlArgs, runs, rlClean, rlLocal, rlRemote, merge_title,
                 commit_body, semver_tag, rlMerge, localTags0, remoteTags0,
                 localTags, remoteTags, cwVars, rtVars, ffVars>>

\* line 282: git pull --quiet origin develop
RlPullDevelop ==
  /\ rlPc = "pull_develop"
  /\ \E ok \in BOOLEAN :
       /\ rlLog' = Append(rlLog, RlRan("pull_develop", ok))
       /\ IF ok
          THEN /\ rlPc' = RlAfter("pull_develop", ~rlArgs.no_tag)
               /\ UNCHANGED rlExit
               /\ rlLocal' = [rlLocal EXCEPT !["develop"] = GitPull(@, rlRemote["develop"])]
          ELSE /\ RlExitWith(1)
               /\ UNCHANGED <<rlLocal>>
  /\ UNCHANGED <<rlArgs, runs, rlClean, rlBranch, rlRemote, merge_title,
                 commit_body, semver_tag, rlMerge, localTags0, remoteTags0,
                 localTags, remoteTags, cwVars, rtVars, ffVars>>

\* line 285: git checkout main
RlCheckoutMain ==
  /\ rlPc = "checkout_main"
  /\ \E ok \in BOOLEAN :
       /\ rlLog' = Append(rlLog, RlRan("checkout_main", ok))
       /\ IF ok
          THEN /\ rlPc' = RlAfter("checkout_main", ~rlArgs.no_tag)
               /\ UNCHANGED rlExit
               /\ rlBranch' = "main"
          ELSE /\ RlExitWith(1)
               /\ UNCHANGED <<rlBranch>>
  /\ UNCHANGED <<rlArgs, runs, rlClean, rlLocal, rlRemote, merge_title,
                 commit_body, semver_tag, rlMerge, localTags0, remoteTags0,
                 localTags, remoteTags, cwVars, rtVars, ffVars>>

\* mutant: a failed pull of main is tolerated (git pull ... || true)
RlPullMainTolerated ==
  /\ rlPc = "pull_main"
  /\ \E ok \in BOOLEAN :
       /\ rlLog' = Append(rlLog, RlRan("pull_main", ok))
       /\ IF ok
          THEN /\ rlPc' = RlAfter("pull_main", ~rlArgs.no_tag)
               /\ UNCHANGED rlExit
               /\ rlLocal' = [rlLocal EXCEPT !["main"] = GitPull(@, rlRemote["main"])]
          ELSE /\ rlPc' = RlAfter("pull_main", ~rlArgs.no_tag)
               /\ UNCHANGED <<rlExit, rlLocal>>
  /\ UNCHANGED <<rlArgs, runs, rlClean, rlBranch, rlRemote, merge_title,
                 commit_body, semver_tag, rlMerge, localTags0, remoteTags0,
                 localTags, remoteTags, cwVars, rtVars, ffVars>>

\* line 286: git pull --quiet origin main
RlPullMain ==
  /\ rlPc = "pull_main"
  /\ \E ok \in BOOLEAN :
       /\ rlLog' = Append(rlLog, RlRan("pull_main", ok))
       /\ IF ok
          THEN /\ rlPc' = RlAfter("pull_main", ~rlArgs.no_tag)
               /\ UNCHANGED rlExit
               /\ rlLocal' = [rlLocal EXCEPT !["main"] = GitPull(@, rlRemote["main"])]
          ELSE /\ RlExitWith(1)
               /\ UNCHANGED <<rlLocal>>
  /\ UNCHANGED <<rlArgs, runs, rlClean, rlBranch, rlRemote, merge_title,
                 commit_body, semver_tag, rlMerge, localTags0, remoteTags0,
                 localTags, remoteTags, cwVars, rtVars, ffVars>>

\* git log main..develop --pretty=format:"- %s": one bullet per commit that
\* develop reaches and main does not, newest first
MergeBullets(main, develop) ==
  LET new == SelectSeq(LogOrder, LAMBDA c : c \in develop.reach \ main.reach)
  IN [i \in 1..Len(new) |-> <<"- ">> \o SubjectOf(new[i])]

\* lines 290-301: the lines of the merge message file
MergeMessage(title, body, main, develop) ==
  <<title>> \o (IF body # <<>> THEN <<<<>>, body>> ELSE <<>>) \o <<<<>>>>
    \o MergeBullets(main, develop)

\* git merge --no-ff develop: a merge commit, unless main already contains
\* develop ("Already up to date", exit 0, nothing is created)
GitMergeNoFF(main, develop) ==
  IF develop.reach \subseteq main.reach THEN main
  ELSE Ref("m1", main.reach \cup develop.reach \cup {"m1"})

MergeRecord(title, body, main, develop) ==
  IF develop.reach \subseteq main.reach THEN NoMerge
  ELSE [id |-> "m1", msg |-> MergeMessage(title, body, main, develop)]

\* lines 290-308: the message file, then git merge --no-ff --quiet develop -F
RlMergeDevelop ==
  /\ rlPc = "merge"
  /\ \E ok \in BOOLEAN :
       /\ rlLog' = Append(rlLog, RlRan("merge", ok))
       /\ IF ok
          THEN /\ rlPc' = RlAfter("merge", ~rlArgs.no_tag)
               /\ UNCHANGED rlExit
               /\ rlLocal' = [rlLocal EXCEPT !["main"] = GitMergeNoFF(@, rlLocal["develop"])]
               /\ rlMerge' = MergeRecord(merge_title, commit_body, rlLocal["main"], rlLocal["develop"])
          ELSE /\ RlExitWith(1)
               /\ UNCHANGED <<rlLocal, rlMerge>>
  /\ UNCHANGED <<rlArgs, runs, rlClean, rlBranch, rlRemote, merge_title,
                 commit_body, semver_tag, localTags0, remoteTags0, localTags,
                 remoteTags, cwVars, rtVars, ffVars>>

\* line 311: git push --quiet origin main
RlPushMain ==
  /\ rlPc = "push_main"
  /\ \E ok \in BOOLEAN :
       /\ rlLog' = Append(rlLog, RlRan("push_main", ok))
       /\ IF ok
          THEN /\ rlPc' = RlAfter("push_main", ~rlArgs.no_tag)
               /\ UNCHANGED rlExit
               /\ rlRemote' = [rlRemote EXCEPT !["main"] = GitPushBranch(@, rlLocal["main"])]
          ELSE /\ RlExitWith(1)
               /\ UNCHANGED <<rlRemote>>
  /\ UNCHANGED <<rlArgs, runs, rlClean, rlBranch, rlLocal, merge_title,
                 commit_body, semver_tag, rlMerge, localTags0, remoteTags0,
                 localTags, remoteTags, cwVars, rtVars, ffVars>>

\* lines 313-345: compute the next semantic version tag from the local
\* tags.  git tag --list runs in a process substitution (line 325), so its
\* exit status is not seen by set -e: when it fails the loop reads nothing
\* and the script goes on as if there were no tag.
RlComputeTag ==
  /\ rlPc = "compute_tag"
  /\ \E list_ok \in BOOLEAN :
       LET listed == IF list_ok THEN localTags ELSE NoTags
           r == NextSemverTag(listed)
       IN /\ rlLog' = Append(rlLog, [cmd |-> "compute_tag", ok |-> r.ok,
                                     status |-> IF list_ok THEN 0 ELSE 1])
          /\ IF r.ok
             THEN /\ semver_tag' = r.tag
                  /\ rlPc' = RlAfter("compute_tag", ~rlArgs.no_tag)
                  /\ UNCHANGED rlExit
             ELSE /\ RlExitWith(1)
                  /\ UNCHANGED semver_tag
  /\ UNCHANGED <<rlArgs, runs, rlClean, rlBranch, rlLocal, rlRemote, merge_title,
                 commit_body, rlMerge, localTags0, remoteTags0, localTags,
                 remoteTags, cwVars, rtVars, ffVars>>

\* lines 347-351: git rev-parse -q --verify refs/tags/$semver_tag
RlVerifyTagFree ==
  /\ rlPc = "verify_tag"
  /\ rlLog' = Append(rlLog, [cmd |-> "verify_tag", ok |-> semver_tag \notin DOMAIN localTags,
                             status |-> IF semver_tag \in DOMAIN localTags THEN 0 ELSE 1])
  /\ IF semver_tag \notin DOMAIN localTags
     THEN /\ rlPc' = RlAfter("verify_tag", ~rlArgs.no_tag)
          /\ UNCHANGED rlExit
     ELSE RlExitWith(1)
  /\ UNCHANGED <<rlArgs, runs, rlClean, rlBranch, rlLocal, rlRemote, merge_title,
                 commit_body, semver_tag, rlMerge, localTags0, remoteTags0,
                 localTags, remoteTags, cwVars, rtVars, ffVars>>

\* -m "Release $semver_tag - $merge_title"
ReleaseTagMessage(tag, title) ==
  <<"R", "e", "l", "e", "a", "s", "e", " ">> \o tag \o <<" ", "-", " ">> \o title

\* git tag -a <name> -m <msg>: an annotated tag at HEAD
GitTagHead(tags, name, msg, head) == TagPut(tags, name, [target |-> head, msg |-> msg])

\* line 354: git tag -a "$semver_tag" -m "Release $semver_tag - $merge_title"
RlCreateTag ==
  /\ rlPc = "tag"
  /\ \E ok \in BOOLEAN :
       /\ rlLog' = Append(rlLog, RlRan("tag", ok))
       /\ IF ok
          THEN /\ rlPc' = RlAfter("tag", ~rlArgs.no_tag)
               /\ UNCHANGED rlExit
               /\ localTags' = GitTagHead(localTags, semver_tag,
                                       ReleaseTagMessage(semver_tag, merge_title),
                                       rlLocal[rlBranch].head)
          ELSE /\ RlExitWith(1)
               /\ UNCHANGED <<localTags>>
  /\ UNCHANGED <<rlArgs, runs, rlClean, rlBranch, rlLocal, rlRemote, merge_title,
                 commit_body, semver_tag, rlMerge, localTags0, remoteTags0,
                 remoteTags, cwVars, rtVars, ffVars>>

\* line 357: git push --quiet origin "$semver_tag"; not forced, so a remote
\* tag of that name that points elsewhere rejects the push
RlPushTag ==
  /\ rlPc = "push_tag"
  /\ \E net_ok \in BOOLEAN :
       LET ok == net_ok /\ (semver_tag \in DOMAIN remoteTags
                              => remoteTags[semver_tag] = localTags[semver_tag])
       IN /\ rlLog' = Append(rlLog, RlRan("push_tag", ok))
          /\ IF ok
             THEN /\ remoteTags' = TagPut(remoteTags, semver_tag, localTags[semver_tag])
                  /\ rlPc' = RlAfter("push_tag", ~rlArgs.no_tag)
                  /\ UNCHANGED rlExit
             ELSE /\ RlExitWith(1)
                  /\ UNCHANGED remoteTags
  /\ UNCHANGED <<rlArgs, runs, rlClean, rlBranch, rlLocal, rlRemote, merge_title,
                 commit_body, semver_tag, rlMerge, localTags0, remoteTags0,
                 localTags, cwVars, rtVars, ffVars>>

\* line 363: git checkout main
RlResyncCheckoutMain ==
  /\ rlPc = "resync_checkout_main"
  /\ \E ok \in BOOLEAN :
       /\ rlLog' = Append(rlLog, RlRan("resync_checkout_main", ok))
       /\ IF ok
          THEN /\ rlPc' = RlAfter("resync_checkout_main", ~rlArgs.no_tag)
               /\ UNCHANGED rlExit
               /\ rlBranch' = "main"
          ELSE /\ RlExitWith(1)
               /\ UNCHANGED <<rlBranch>>
  /\ UNCHANGED <<rlArgs, runs, rlClean, rlLocal, rlRemote, merge_title,
                 commit_body, semver_tag, rlMerge, localTags0, remoteTags0,
                 localTags, remoteTags, cwVars, rtVars, ffVars>>

\* line 364: git pull --quiet origin main
RlResyncPullMain ==
  /\ rlPc = "resync_pull_main"
  /\ \E ok \in BOOLEAN :
       /\ rlLog' = Append(rlLog, RlRan("resync_pull_main", ok))
       /\ IF ok
          THEN /\ rlPc' = RlAfter("resync_pull_main", ~rlArgs.no_tag)
               /\ UNCHANGED rlExit
               /\ rlLocal' = [rlLocal EXCEPT !["main"] = GitPull(@, rlRemote["main"])]
          ELSE /\ RlExitWith(1)
               /\ UNCHANGED <<rlLocal>>
  /\ UNCHANGED <<rlArgs, runs, rlClean, rlBranch, rlRemote, merge_title,
                 commit_body, semver_tag, rlMerge, localTags0, remoteTags0,
                 localTags, remoteTags, cwVars, rtVars, ffVars>>

\* line 366: git checkout develop
RlResyncCheckoutDevelop ==
  /\ rlPc = "resync_checkout_develop"
  /\ \E ok \in BOOLEAN :
       /\ rlLog' = Append(rlLog, RlRan("resync_checkout_develop", ok))
       /\ IF ok
          THEN /\ rlPc' = RlAfter("resync_checkout_develop", ~rlArgs.no_tag)
               /\ UNCHANGED rlExit
               /\ rlBranch' = "develop"
          ELSE /\ RlExitWith(1)
               /\ UNCHANGED <<rlBranch>>
  /\ UNCHANGED <<rlArgs, runs, rlClean, rlLocal, rlRemote, merge_title,
                 commit_body, semver_tag, rlMerge, localTags0, remoteTags0,
                 localTags, remoteTags, cwVars, rtVars, ffVars>>

\* line 367: git pull --quiet origin develop, then the success banner
RlResyncPullDevelop ==
  /\ rlPc = "resync_pull_develop"
  /\ \E ok \in BOOLEAN :
       /\ rlLog' = Append(rlLog, RlRan("resync_pull_develop", ok))
       /\ IF ok
          THEN /\ rlLocal' = [rlLocal EXCEPT !["develop"] = GitPull(@, rlRemote["develop"])]
               /\ rlPc' = RlAfter("resync_pull_develop", ~rlArgs.no_tag)
               /\ rlExit' = 0
          ELSE /\ RlExitWith(1)
               /\ UNCHANGED rlLocal
  /\ UNCHANGED <<rlArgs, runs, rlClean, rlBranch, rlRemote, merge_title,
                 commit_body, semver_tag, rlMerge, localTags0, remoteTags0,
                 localTags, remoteTags, cwVars, rtVars, ffVars>>

NextRelease ==
  \/ RlParseArgs
  \/ RlCheckClean
  \/ RlFetch
  \/ RlCheckoutDevelop
  \/ RlPullDevelop
  \/ RlCheckoutMain
  \/ RlPullMain
  \/ RlMergeDevelop
  \/ RlPushMain
  \/ RlComputeTag
  \/ RlVerifyTagFree
  \/ RlCreateTag
  \/ RlPushTag
  \/ RlResyncCheckoutMain
  \/ RlResyncPullMain
  \/ RlResyncCheckoutDevelop
  \/ RlResyncPullDevelop

SpecRelease == InitRelease /\ [][NextRelease]_vars


(***************************************************************************)
(* Properties of the ReleaseManager                                        *)
(***************************************************************************)
RlLast == rlLog[Len(rlLog)]

RlJustRan(cmd) == rlLog # <<>> /\ RlLast.cmd = cmd

\* v<major>.<minor>.<patch> read as three decimal numbers
SemanticTriple(name) ==
  LET f == SemverFields(name)
  IN <<BaseValue(f[1], 10), BaseValue(f[2], 10), BaseValue(f[3], 10)>>

TripleLess(a, b) ==
  \/ a[1] < b[1]
  \/ a[1] = b[1] /\ a[2] < b[2]
  \/ a[1] = b[1] /\ a[2] = b[2] /\ a[3] < b[3]

\* the tag the specification announces: one patch above the semantically
\* highest v<major>.<minor>.<patch> tag, v0.0.1 when there is none
SemanticNext(tags) ==
  LET form == {n \in DOMAIN tags : MatchesSemver(n)}
  IN IF form = {} THEN SemverName(<<"0">>, <<"0">>, <<"1">>)
     ELSE LET top == CHOOSE n \in form :
                       \A m \in form : ~TripleLess(SemanticTriple(n), SemanticTriple(m))
              f == SemverFields(top)
          IN SemverName(f[1], f[2], Decimal(BaseValue(f[3], 10) + 1))

\* C7: the tag computed by the ReleaseManager is vM.m.(p+1) for the
\* semantically highest existing tag vM.m.p of the form
\* v<major>.<minor>.<patch>, and v0.0.1 when no tag has that form; tags of
\* another form never change the result.
C7_NextTagFollowsSemanticHighest ==
  RlJustRan("compute_tag") => RlLast.ok /\ semver_tag = SemanticNext(localTags)

\* C8: every tag the run creates is annotated with the message
\* "Release {tag} - {title}" and points at the merge commit that the same run
\* created, also when develop had nothing that main lacked.
C8_TagPointsAtMergeCommitOfTheRun ==
  (RlJustRan("tag") /\ RlLast.ok) =>
    /\ rlMerge.id # "none"
    /\ localTags[semver_tag] =
         [target |-> rlMerge.id, msg |-> ReleaseTagMessage(semver_tag, merge_title)]

TaggingSteps == {"compute_tag", "verify_tag", "tag", "push_tag"}

TaggingFailed ==
  /\ rlPc = "exit"
  /\ rlLog # <<>>
  /\ RlLast.cmd \in TaggingSteps
  /\ ~RlLast.ok

\* C9: when the tagging phase fails, the run exits non-zero, main has
\* already been pushed (origin/main is the local main after the merge and
\* contains everything develop has; it is the merge commit when one was
\* created) and the remote has no tag it did not have before the run.
C9_TaggingFailureLeavesPushedMergeUntagged ==
  TaggingFailed =>
    /\ rlExit = 1
    /\ \E i \in 1..Len(rlLog) : rlLog[i].cmd = "push_main" /\ rlLog[i].ok
    /\ rlRemote["main"] = rlLocal["main"]
    /\ rlLocal["develop"].reach \subseteq rlRemote["main"].reach
    /\ rlMerge.id # "none" => rlRemote["main"].head = rlMerge.id
    /\ remoteTags = remoteTags0

C9_Witness ==
  /\ TaggingFailed
  /\ RlLast.cmd = "push_tag"
  /\ rlMerge.id = "m1"
  /\ rlRemote["main"].head = "m1"
  /\ semver_tag \in DOMAIN localTags

RlCommandsBeforeTag ==
  <<"fetch", "checkout_develop", "pull_develop", "checkout_main", "pull_main",
    "merge", "push_main">>

RlCommandsOfTag == <<"compute_tag", "verify_tag", "tag", "push_tag">>

RlCommandsOfResync ==
  <<"resync_checkout_main", "resync_pull_main", "resync_checkout_develop",
    "resync_pull_develop">>

RlSucceededBefore(cmd, i) ==
  \E j \in 1..(i - 1) : rlLog[j].cmd = cmd /\ rlLog[j].ok

\* C10: a successful run executed fetch, the update of develop, the update
\* of main, the --no-ff merge, the push of main, then (unless --no-tag) the
\* creation and push of the tag, then the re-synchronisation, in that order;
\* no tag is created or pushed before the push of main succeeded and no merge
\* happens before both branches were updated.
C10_StepsRunInOrder ==
  /\ rlPc = "done" =>
       /\ \A i \in 1..Len(rlLog) : rlLog[i].ok
       /\ [i \in 1..Len(rlLog) |-> rlLog[i].cmd] =
            RlCommandsBeforeTag
              \o (IF rlArgs.no_tag THEN <<>> ELSE RlCommandsOfTag)
              \o RlCommandsOfResync
  /\ \A i \in 1..Len(rlLog) :
       /\ rlLog[i].cmd \in {"tag", "push_tag"} => RlSucceededBefore("push_main", i)
       /\ rlLog[i].cmd = "merge" =>
            RlSucceededBefore("pull_develop", i) /\ RlSucceededBefore("pull_main", i)

C10_Witness ==
  /\ rlPc = "done"
  /\ rlExit = 0
  /\ ~rlArgs.no_tag
  /\ rlMerge.id = "m1"
  /\ semver_tag \in DOMAIN remoteTags


RlHasFlags(a) == a.type # <<>> \/ a.scope # <<>> \/ a.description # <<>> \/ a.body # <<>>

\* the state that git commands change: branches, tags, current branch
RlRepository == <<rlBranch, rlLocal, rlRemote, localTags, remoteTags, rlMerge>>

\* a step taken while the arguments and the working tree are being checked
RlValidationStep ==
  rlPc \in {"args", "clean"} =>
    /\ UNCHANGED RlRepository
    /\ rlLog' = <<>>
    /\ (rlPc = "args" /\ ~RlParse(rlArgs).ok) => rlPc' = "exit"
    /\ (rlPc = "clean" /\ ~rlClean) => rlPc' = "exit"
    /\ rlPc' = "exit" => rlExit' = 1

\* C11: a conflict of input forms, a missing specification, an unknown type
\* or scope, a malformed comma string, a title failing the grammar and a
\* dirty working tree all end the run with a non-zero exit before the first
\* git command that changes state: while the arguments and the working tree
\* are being checked no git command is logged and the repository and the
\* remote stay as they were.
C11_RejectionsPrecedeEveryMutation == [][RlValidationStep]_vars

C11_Witness ==
  /\ rlPc = "exit"
  /\ rlExit = 1
  /\ rlLog = <<>>
  /\ RlParse(rlArgs).ok
  /\ ~rlClean
  /\ rlLocal["develop"].head = "d1"

\* the grammar of a pre-formatted title: one of the eight types, an optional
\* scope of [a-z0-9-]+ in parentheses, ": " and a non-empty description
ConventionalTitle(title) ==
  \E n \in {1, 4} :
    /\ Len(title) >= n + 3
    /\ title[1] \in {"feat", "fix", "refactor", "chore", "docs", "test", "style", "perf"}
    /\ n = 4 => title[2] = "(" /\ title[3] \in ScopeWords /\ title[4] = ")"
    /\ title[n + 1] = ":" /\ title[n + 2] = " "

RlPastArguments == rlPc # "args"

\* C12: a single positional argument that matches the Conventional-Commit
\* grammar is accepted and used verbatim as the merge title.
C12_GrammarTitleAcceptedVerbatim ==
  (RlPastArguments /\ ~RlHasFlags(rlArgs) /\ ConventionalTitle(rlArgs.raw_spec))
    => merge_title = rlArgs.raw_spec

\* C12 (amended): a single positional argument without a comma that matches
\* the Conventional-Commit grammar is accepted and used verbatim as the merge
\* title; with a comma it is read as "type,scope,description[,body]".
C12_CommaFreeGrammarTitleAcceptedVerbatim ==
  (/\ RlPastArguments
   /\ ~RlHasFlags(rlArgs)
   /\ ConventionalTitle(rlArgs.raw_spec)
   /\ "," \notin Range(rlArgs.raw_spec))
    => merge_title = rlArgs.raw_spec /\ (rlLog = <<>> /\ rlClean => rlPc # "exit")

C12_Witness ==
  /\ rlPc = "done"
  /\ ~RlHasFlags(rlArgs)
  /\ rlArgs.raw_spec = <<"fix", ":", " ", "d1">>
  /\ merge_title = rlArgs.raw_spec
  /\ rlMerge.id = "m1"
  /\ rlMerge.msg[1] = rlArgs.raw_spec


(***************************************************************************)
(* Feature workflow: git-feature-sync.sh and git-feature-finish.sh         *)
(***************************************************************************)
Develop == <<"develop">>
FeatureX == <<"feature", "/", "x">>

\* [[ "$current_branch" != feature/* ]]
IsFeatureBranch(name) == Len(name) >= 2 /\ name[1] = "feature" /\ name[2] = "/"

\* branches the run can start on
StartBranches == {FeatureX, Develop, <<"feature", "-", "x">>}

\* commits of the scenario: b0 is on every branch, f1 is work on the feature
\* branch, u1 is a commit of local develop that was never pushed, r1 is a
\* commit origin/develop has and the clone has not fetched
InitFeature ==
  /\ ffScript \in {"sync", "finish"}
  /\ ffPc = IF ffScript = "sync" THEN "sync_branch" ELSE "finish_branch"
  /\ ffBranch \in StartBranches
  /\ ffClean \in BOOLEAN
  /\ \E work, unpushed, remote_new \in BOOLEAN, published \in {"no", "yes", "behind"} :
       LET feature == Ref(IF work THEN "f1" ELSE "b0", {"b0"} \cup (IF work THEN {"f1"} ELSE {}))
           base == Ref("b0", {"b0"})
       IN /\ ffLocal = [b \in {Develop, FeatureX} |->
                          IF b = FeatureX THEN feature
                          ELSE IF unpushed THEN Ref("u1", {"b0", "u1"}) ELSE base]
          /\ ffRemote = [b \in {Develop, FeatureX} |->
                           IF b = Develop
                           THEN (IF remote_new THEN Ref("r1", {"b0", "r1"}) ELSE base)
                           ELSE CASE published = "no" -> Absent
                                  [] published = "yes" -> feature
                                  [] OTHER -> base]
  /\ ffTracking = Ref("b0", {"b0"})
  /\ current_branch = <<>>
  /\ feature_branch = <<>>
  /\ ffMerged = Absent
  /\ ffLog = <<>>
  /\ ffExit = -1
  /\ CwIdle
  /\ TagsIdle
  /\ RtIdle
  /\ RlIdle

FfExitWith(code) ==
  /\ ffPc' = "exit"
  /\ ffExit' = code

\* mutant: git-feature-finish.sh does not call git-feature-sync.sh
FfAfterSyncSkipped(step, script) ==
  CASE step = "finish_clean" -> "finish_after_sync"
    [] step = "sync_clean" -> "sync_fetch"
    [] step = "sync_fetch" -> "sync_checkout_develop"
    [] step = "sync_checkout_develop" -> "sync_pull"
    [] step = "sync_pull" -> "sync_checkout_feature"
    [] step = "sync_checkout_feature" -> "sync_merge"
    [] step = "sync_merge" -> "sync_push"
    [] step = "sync_push" -> IF script = "sync" THEN "done" ELSE "finish_after_sync"
    [] step = "finish_after_sync" -> "finish_checkout_develop"
    [] step = "finish_checkout_develop" -> "finish_pull"
    [] step = "finish_pull" -> "finish_merge"
    [] step = "finish_merge" -> "finish_push"
    [] step = "finish_push" -> "finish_delete_local"
    [] step = "finish_delete_local" -> "finish_delete_remote"
    [] step = "finish_delete_remote" -> "done"

\* the order of the commands: git-feature-sync.sh lines 11-46,
\* git-feature-finish.sh lines 535-590
FfAfter(step, script) ==
  CASE step = "finish_clean" -> "sync_branch"
    [] step = "sync_clean" -> "sync_fetch"
    [] step = "sync_fetch" -> "sync_checkout_develop"
    [] step = "sync_checkout_develop" -> "sync_pull"
    [] step = "sync_pull" -> "sync_checkout_feature"
    [] step = "sync_checkout_feature" -> "sync_merge"
    [] step = "sync_merge" -> "sync_push"
    [] step = "sync_push" -> IF script = "sync" THEN "done" ELSE "finish_after_sync"
    [] step = "finish_after_sync" -> "finish_checkout_develop"
    [] step = "finish_checkout_develop" -> "finish_pull"
    [] step = "finish_pull" -> "finish_merge"
    [] step = "finish_merge" -> "finish_push"
    [] step = "finish_push" -> "finish_delete_local"
    [] step = "finish_delete_local" -> "finish_delete_remote"
    [] step = "finish_delete_remote" -> "done"

\* git-feature-finish.sh lines 535-540
FinishCheckBranch ==
  /\ ffPc = "finish_branch"
  /\ IF IsFeatureBranch(ffBranch)
     THEN /\ ffPc' = "finish_clean"
          /\ UNCHANGED ffExit
     ELSE FfExitWith(1)
  /\ UNCHANGED <<ffScript, ffBranch, ffClean, ffLocal, ffRemote, ffTracking,
                 current_branch, feature_branch, ffMerged, ffLog, cwVars,
                 tagVars, rtVars, rlVars>>

\* git-feature-finish.sh lines 542-551
FinishCheckClean ==
  /\ ffPc = "finish_clean"
  /\ IF ffClean
     THEN /\ feature_branch' = ffBranch
          /\ ffPc' = FfAfter("finish_clean", ffScript)
          /\ UNCHANGED ffExit
     ELSE /\ FfExitWith(1)
          /\ UNCHANGED feature_branch
  /\ UNCHANGED <<ffScript, ffBranch, ffClean, ffLocal, ffRemote, ffTracking,
                 current_branch, ffMerged, ffLog, cwVars, tagVars, rtVars,
                 rlVars>>

\* git-feature-sync.sh lines 11-18
SyncCheckBranch ==
  /\ ffPc = "sync_branch"
  /\ IF IsFeatureBranch(ffBranch)
     THEN /\ current_branch' = ffBranch
          /\ ffPc' = "sync_clean"
          /\ UNCHANGED ffExit
     ELSE /\ FfExitWith(1)
          /\ UNCHANGED current_branch
  /\ UNCHANGED <<ffScript, ffBranch, ffClean, ffLocal, ffRemote, ffTracking,
                 feature_branch, ffMerged, ffLog, cwVars, tagVars, rtVars,
                 rlVars>>

\* mutant: git-feature-sync.sh does not look at the working tree
SyncCheckCleanSkipped ==
  /\ ffPc = "sync_clean"
  /\ ffPc' = FfAfter("sync_clean", ffScript)
  /\ UNCHANGED <<ffScript, ffBranch, ffClean, ffLocal, ffRemote, ffTracking,
                 current_branch, feature_branch, ffMerged, ffLog, ffExit, cwVars,
                 tagVars, rtVars, rlVars>>

\* git-feature-sync.sh lines 20-24
SyncCheckClean ==
  /\ ffPc = "sync_clean"
  /\ IF ffClean
     THEN /\ ffPc' = FfAfter("sync_clean", ffScript)
          /\ UNCHANGED ffExit
     ELSE FfExitWith(1)
  /\ UNCHANGED <<ffScript, ffBranch, ffClean, ffLocal, ffRemote, ffTracking,
                 current_branch, feature_branch, ffMerged, ffLog, cwVars,
                 tagVars, rtVars, rlVars>>

\* git pull origin develop on the checked-out branch: the remote-tracking
\* branch follows origin; the local branch is fast-forwarded, left alone when
\* it already has everything, and merged (commit pm) when both sides have
\* commits of their own
GitPullMerge(local, remote) ==
  IF local.reach \subseteq remote.reach THEN remote
  ELSE IF remote.reach \subseteq local.reach THEN local
  ELSE Ref("pm", local.reach \cup remote.reach \cup {"pm"})

\* mutant: the merge fast-forwards when it can
GitMergeFastForward(id, into, rev) ==
  IF rev.reach \subseteq into.reach THEN into
  ELSE IF into.reach \subseteq rev.reach THEN rev
  ELSE Ref(id, into.reach \cup rev.reach \cup {id})

\* git merge --no-ff <rev>: a merge commit with the given id, unless the
\* branch already contains the revision ("Already up to date")
GitMergeNoFFAs(id, into, rev) ==
  IF rev.reach \subseteq into.reach THEN into
  ELSE Ref(id, into.reach \cup rev.reach \cup {id})

\* git-feature-sync.sh line 27: git fetch origin
SyncFetch ==
  /\ ffPc = "sync_fetch"
  /\ \E ok \in BOOLEAN :
       /\ ffLog' = Append(ffLog, [cmd |-> "sync_fetch", ok |-> ok])
       /\ IF ok
          THEN /\ ffPc' = FfAfter("sync_fetch", ffScript)
               /\ UNCHANGED ffExit
               /\ ffTracking' = ffRemote[Develop]
          ELSE /\ FfExitWith(1)
               /\ UNCHANGED <<ffTracking>>
  /\ UNCHANGED <<ffScript, ffBranch, ffClean, ffLocal, ffRemote,
                 current_branch, feature_branch, ffMerged, cwVars, tagVars,
                 rtVars, rlVars>>

\* git-feature-sync.sh line 30: git checkout develop
SyncCheckoutDevelop ==
  /\ ffPc = "sync_checkout_develop"
  /\ \E ok \in BOOLEAN :
       /\ ffLog' = Append(ffLog, [cmd |-> "sync_checkout_develop", ok |-> ok])
       /\ IF ok
          THEN /\ ffPc' = FfAfter("sync_checkout_develop", ffScript)
               /\ UNCHANGED ffExit
               /\ ffBranch' = Develop
          ELSE /\ FfExitWith(1)
               /\ UNCHANGED <<ffBranch>>
  /\ UNCHANGED <<ffScript, ffClean, ffLocal, ffRemote, ffTracking,
                 current_branch, feature_branch, ffMerged, cwVars, tagVars,
                 rtVars, rlVars>>

\* git-feature-sync.sh line 31: git pull origin develop
SyncPullDevelop ==
  /\ ffPc = "sync_pull"
  /\ \E ok \in BOOLEAN :
       /\ ffLog' = Append(ffLog, [cmd |-> "sync_pull", ok |-> ok])
       /\ IF ok
          THEN /\ ffPc' = FfAfter("sync_pull", ffScript)
               /\ UNCHANGED ffExit
               /\ ffTracking' = ffRemote[Develop]
               /\ ffLocal' = [ffLocal EXCEPT ![ffBranch] = GitPullMerge(@, ffRemote[Develop])]
          ELSE /\ FfExitWith(1)
               /\ UNCHANGED <<ffLocal, ffTracking>>
  /\ UNCHANGED <<ffScript, ffBranch, ffClean, ffRemote, current_branch,
                 feature_branch, ffMerged, cwVars, tagVars, rtVars, rlVars>>

\* git-feature-sync.sh line 34: git checkout "$current_branch"
SyncCheckoutFeature ==
  /\ ffPc = "sync_checkout_feature"
  /\ \E ok \in BOOLEAN :
       /\ ffLog' = Append(ffLog, [cmd |-> "sync_checkout_feature", ok |-> ok])
       /\ IF ok
          THEN /\ ffPc' = FfAfter("sync_checkout_feature", ffScript)
               /\ UNCHANGED ffExit
               /\ ffBranch' = current_branch
          ELSE /\ FfExitWith(1)
               /\ UNCHANGED <<ffBranch>>
  /\ UNCHANGED <<ffScript, ffClean, ffLocal, ffRemote, ffTracking,
                 current_branch, feature_branch, ffMerged, cwVars, tagVars,
                 rtVars, rlVars>>

\* git-feature-sync.sh line 37: git merge --no-ff origin/develop
SyncMerge ==
  /\ ffPc = "sync_merge"
  /\ \E ok \in BOOLEAN :
       /\ ffLog' = Append(ffLog, [cmd |-> "sync_merge", ok |-> ok])
       /\ IF ok
          THEN /\ ffPc' = FfAfter("sync_merge", ffScript)
               /\ UNCHANGED ffExit
               /\ ffLocal' = [ffLocal EXCEPT ![ffBranch] = GitMergeNoFFAs("sm", @, ffTracking)]
               /\ ffMerged' = ffTracking
          ELSE /\ FfExitWith(1)
               /\ UNCHANGED <<ffLocal, ffMerged>>
  /\ UNCHANGED <<ffScript, ffBranch, ffClean, ffRemote, ffTracking,
                 current_branch, feature_branch, cwVars, tagVars, rtVars,
                 rlVars>>

\* git-feature-sync.sh lines 43-46: git push of the current branch, then the
\* closing message
SyncPush ==
  /\ ffPc = "sync_push"
  /\ \E ok \in BOOLEAN :
       /\ ffLog' = Append(ffLog, [cmd |-> "sync_push", ok |-> ok])
       /\ IF ok
          THEN /\ ffRemote' = [ffRemote EXCEPT ![ffBranch] = ffLocal[ffBranch]]
               /\ ffPc' = FfAfter("sync_push", ffScript)
               /\ ffExit' = IF ffScript = "sync" THEN 0 ELSE ffExit
          ELSE /\ FfExitWith(1)
               /\ UNCHANGED ffRemote
  /\ UNCHANGED <<ffScript, ffBranch, ffClean, ffLocal, ffTracking,
                 current_branch, feature_branch, ffMerged, cwVars, tagVars,
                 rtVars, rlVars>>

\* git-feature-finish.sh lines 553-558
FinishCheckAfterSync ==
  /\ ffPc = "finish_after_sync"
  /\ IF ffBranch = feature_branch
     THEN /\ ffPc' = FfAfter("finish_after_sync", ffScript)
          /\ UNCHANGED ffExit
     ELSE FfExitWith(1)
  /\ UNCHANGED <<ffScript, ffBranch, ffClean, ffLocal, ffRemote, ffTracking,
                 current_branch, feature_branch, ffMerged, ffLog, cwVars,
                 tagVars, rtVars, rlVars>>

\* git-feature-finish.sh line 565: git checkout develop
FinishCheckoutDevelop ==
  /\ ffPc = "finish_checkout_develop"
  /\ \E ok \in BOOLEAN :
       /\ ffLog' = Append(ffLog, [cmd |-> "finish_checkout_develop", ok |-> ok])
       /\ IF ok
          THEN /\ ffPc' = FfAfter("finish_checkout_develop", ffScript)
               /\ UNCHANGED ffExit
               /\ ffBranch' = Develop
          ELSE /\ FfExitWith(1)
               /\ UNCHANGED <<ffBranch>>
  /\ UNCHANGED <<ffScript, ffClean, ffLocal, ffRemote, ffTracking,
                 current_branch, feature_branch, ffMerged, cwVars, tagVars,
                 rtVars, rlVars>>

\* git-feature-finish.sh line 566: git pull origin develop
FinishPullDevelop ==
  /\ ffPc = "finish_pull"
  /\ \E ok \in BOOLEAN :
       /\ ffLog' = Append(ffLog, [cmd |-> "finish_pull", ok |-> ok])
       /\ IF ok
          THEN /\ ffPc' = FfAfter("finish_pull", ffScript)
               /\ UNCHANGED ffExit
               /\ ffTracking' = ffRemote[Develop]
               /\ ffLocal' = [ffLocal EXCEPT ![Develop] = GitPullMerge(@, ffRemote[Develop])]
          ELSE /\ FfExitWith(1)
               /\ UNCHANGED <<ffLocal, ffTracking>>
  /\ UNCHANGED <<ffScript, ffBranch, ffClean, ffRemote, current_branch,
                 feature_branch, ffMerged, cwVars, tagVars, rtVars, rlVars>>

\* git-feature-finish.sh line 569: git merge --no-ff "$feature_branch"
FinishMerge ==
  /\ ffPc = "finish_merge"
  /\ \E ok \in BOOLEAN :
       /\ ffLog' = Append(ffLog, [cmd |-> "finish_merge", ok |-> ok])
       /\ IF ok
          THEN /\ ffPc' = FfAfter("finish_merge", ffScript)
               /\ UNCHANGED ffExit
               /\ ffLocal' = [ffLocal EXCEPT ![Develop] = GitMergeNoFFAs("fm", @, ffLocal[feature_branch])]
          ELSE /\ FfExitWith(1)
               /\ UNCHANGED <<ffLocal>>
  /\ UNCHANGED <<ffScript, ffBranch, ffClean, ffRemote, ffTracking,
                 current_branch, feature_branch, ffMerged, cwVars, tagVars,
                 rtVars, rlVars>>

\* mutant: develop is not pushed and the script goes on
FinishPushDevelopSkipped ==
  /\ ffPc = "finish_push"
  /\ ffPc' = FfAfter("finish_push", ffScript)
  /\ UNCHANGED <<ffScript, ffBranch, ffClean, ffLocal, ffRemote, ffTracking,
                 current_branch, feature_branch, ffMerged, ffLog, ffExit, cwVars,
                 tagVars, rtVars, rlVars>>

\* git-feature-finish.sh line 572: git push origin develop
FinishPushDevelop ==
  /\ ffPc = "finish_push"
  /\ \E ok \in BOOLEAN :
       /\ ffLog' = Append(ffLog, [cmd |-> "finish_push", ok |-> ok])
       /\ IF ok
          THEN /\ ffPc' = FfAfter("finish_push", ffScript)
               /\ UNCHANGED ffExit
               /\ ffRemote' = [ffRemote EXCEPT ![Develop] = GitPushBranch(@, ffLocal[Develop])]
               /\ ffTracking' = GitPushBranch(ffRemote[Develop], ffLocal[Develop])
          ELSE /\ FfExitWith(1)
               /\ UNCHANGED <<ffRemote, ffTracking>>
  /\ UNCHANGED <<ffScript, ffBranch, ffClean, ffLocal, current_branch,
                 feature_branch, ffMerged, cwVars, tagVars, rtVars, rlVars>>

\* git branch -d: the branch goes only when it is fully merged into HEAD
FullyMerged(refs, name, head) ==
  refs[name] # Absent /\ refs[name].reach \subseteq refs[head].reach

GitBranchDelete(refs, name, head) ==
  IF FullyMerged(refs, name, head) THEN [refs EXCEPT ![name] = Absent] ELSE refs

\* mutant: git branch -d is a statement of its own, not the condition of an if
FinishDeleteLocalFatal ==
  /\ ffPc = "finish_delete_local"
  /\ \E del_ok \in BOOLEAN :
       LET ok == del_ok /\ FullyMerged(ffLocal, feature_branch, ffBranch)
       IN /\ ffLog' = Append(ffLog, [cmd |-> "finish_delete_local", ok |-> ok])
          /\ ffLocal' = IF ok THEN GitBranchDelete(ffLocal, feature_branch, ffBranch)
                        ELSE ffLocal
          /\ IF ok
             THEN /\ ffPc' = FfAfter("finish_delete_local", ffScript)
                  /\ UNCHANGED ffExit
             ELSE FfExitWith(1)
  /\ UNCHANGED <<ffScript, ffBranch, ffClean, ffRemote, ffTracking,
                 current_branch, feature_branch, ffMerged, cwVars,
                 tagVars, rtVars, rlVars>>

\* git-feature-finish.sh lines 574-580: git branch -d refuses a branch that
\* is not fully merged and can fail for a reason of its own (a locked ref);
\* a branch that is not deleted is only a warning
FinishDeleteLocal ==
  /\ ffPc = "finish_delete_local"
  /\ \E del_ok \in BOOLEAN :
       LET ok == del_ok /\ FullyMerged(ffLocal, feature_branch, ffBranch)
       IN /\ ffLog' = Append(ffLog, [cmd |-> "finish_delete_local", ok |-> ok])
          /\ ffLocal' = IF ok THEN GitBranchDelete(ffLocal, feature_branch, ffBranch)
                        ELSE ffLocal
  /\ ffPc' = FfAfter("finish_delete_local", ffScript)
  /\ UNCHANGED <<ffScript, ffBranch, ffClean, ffRemote, ffTracking,
                 current_branch, feature_branch, ffMerged, ffExit, cwVars,
                 tagVars, rtVars, rlVars>>

\* git-feature-finish.sh lines 582-590: git push origin --delete, a failure
\* is only a warning; then the closing message
FinishDeleteRemote ==
  /\ ffPc = "finish_delete_remote"
  /\ \E net_ok \in BOOLEAN :
       LET ok == net_ok /\ ffRemote[feature_branch] # Absent
       IN /\ ffLog' = Append(ffLog, [cmd |-> "finish_delete_remote", ok |-> ok])
          /\ ffRemote' = IF ok THEN [ffRemote EXCEPT ![feature_branch] = Absent]
                         ELSE ffRemote
  /\ ffPc' = FfAfter("finish_delete_remote", ffScript)
  /\ ffExit' = IF FfAfter("finish_delete_remote", ffScript) = "done" THEN 0 ELSE ffExit
  /\ UNCHANGED <<ffScript, ffBranch, ffClean, ffLocal, ffTracking,
                 current_branch, feature_branch, ffMerged, cwVars, tagVars,
                 rtVars, rlVars>>

NextFeature ==
  \/ FinishCheckBranch
  \/ FinishCheckClean
  \/ SyncCheckBranch
  \/ SyncCheckClean
  \/ SyncFetch
  \/ SyncCheckoutDevelop
  \/ SyncPullDevelop
  \/ SyncCheckoutFeature
  \/ SyncMerge
  \/ SyncPush
  \/ FinishCheckAfterSync
  \/ FinishCheckoutDevelop
  \/ FinishPullDevelop
  \/ FinishMerge
  \/ FinishPushDevelop
  \/ FinishDeleteLocal
  \/ FinishDeleteRemote

SpecFeature == InitFeature /\ [][NextFeature]_vars


(***************************************************************************)
(* Properties of the feature workflow                                      *)
(***************************************************************************)
FfLast == ffLog[Len(ffLog)]

FfJustRan(cmd) == ffLog # <<>> /\ FfLast.cmd = cmd /\ FfLast.ok

FfSucceeded(cmd) == \E i \in 1..Len(ffLog) : ffLog[i] = [cmd |-> cmd, ok |-> TRUE]

FfSucceededBefore(cmd, i) ==
  \E j \in 1..(i - 1) : ffLog[j] = [cmd |-> cmd, ok |-> TRUE]

FfCommands == [i \in 1..Len(ffLog) |-> ffLog[i].cmd]

\* the commands of git-feature-finish.sh that come after its call of the sync
FinishOwnCommands ==
  <<"finish_checkout_develop", "finish_pull", "finish_merge", "finish_push",
    "finish_delete_local", "finish_delete_remote">>

\* the state of the BranchWorkflowEngine
FeatureState ==
  IF ~FfSucceeded("sync_push") THEN "ON_FEATURE"
  ELSE IF ~FfSucceeded("finish_push") THEN "SYNCED"
  ELSE IF ffPc # "done" THEN "MERGED"
  ELSE "CLEANED_UP"

FeatureStateStep ==
  FeatureState' # FeatureState =>
    <<FeatureState, FeatureState'>> \in
      {<<"ON_FEATURE", "SYNCED">>, <<"SYNCED", "MERGED">>, <<"MERGED", "CLEANED_UP">>}

FinishOnlyAfterSync ==
  /\ \A i \in 1..Len(ffLog) :
       ffLog[i].cmd \in Range(FinishOwnCommands) => FfSucceededBefore("sync_push", i)
  /\ ffPc \in Range(FinishOwnCommands) => FfSucceeded("sync_push")
  /\ ffPc = "finish_checkout_develop" => ffBranch = feature_branch
  /\ (ffScript = "finish" /\ ffPc = "exit" /\ ~FfSucceeded("sync_push")) =>
       /\ ffExit = 1
       /\ Range(FfCommands) \cap Range(FinishOwnCommands) = {}
       /\ IsFeatureBranch(ffBranch) => ffLocal[FeatureX] # Absent

\* C13: git-feature-finish.sh checks out develop, merges, pushes develop and
\* deletes branches only after the sync of the same run succeeded with the
\* current branch still the feature branch; when the sync fails the run exits
\* non-zero with none of these steps taken. The engine's states follow
\* ON_FEATURE, SYNCED, MERGED, CLEANED_UP one by one.
C13_FinishMergesOnlyAfterSync == []FinishOnlyAfterSync /\ [][FeatureStateStep]_vars

C13_Witness ==
  /\ ffScript = "finish"
  /\ ffPc = "done"
  /\ ffExit = 0
  /\ FeatureState = "CLEANED_UP"
  /\ ffLocal[Develop].head = "fm"
  /\ ffRemote[Develop].head = "fm"

SyncCommands ==
  <<"sync_fetch", "sync_checkout_develop", "sync_pull", "sync_checkout_feature",
    "sync_merge", "sync_push">>

SyncStepsInOrder ==
  /\ (ffScript = "sync" /\ ffPc = "done") =>
       /\ FfCommands = SyncCommands
       /\ \A i \in 1..Len(ffLog) : ffLog[i].ok
       /\ ffExit = 0
       /\ ffBranch = current_branch
       /\ IsFeatureBranch(ffBranch)
  /\ \A i \in 1..Len(ffLog) :
       ffLog[i].cmd = "sync_push" => FfSucceededBefore("sync_merge", i)

\* C14: a successful sync runs fetch, update of local develop, switch back,
\* merge, push in this order; the push needs the merge to have succeeded, the
\* revision merged in is the updated local develop, and the run ends on the
\* feature branch it started on.
C14_SyncMergesUpdatedStaging ==
  /\ SyncStepsInOrder
  /\ FfJustRan("sync_merge") => ffMerged = ffLocal[Develop]

\* C14 (amended): as above, but the revision merged in is the
\* remote-tracking branch origin/develop as the fetch and the pull left it,
\* which is the updated local develop whenever local develop has no commit
\* that origin lacks; a merge that brings anything in is a merge commit,
\* never a fast-forward.
C14_SyncMergesRemoteTrackingStaging ==
  /\ SyncStepsInOrder
  /\ FfJustRan("sync_merge") =>
       /\ ffMerged = ffTracking
       /\ ffTracking = ffRemote[Develop]
       /\ ffLocal[Develop].reach \subseteq ffRemote[Develop].reach
            => ffMerged = ffLocal[Develop]
       /\ ffMerged.reach \subseteq ffLocal[current_branch].reach
       /\ ffLocal[current_branch].head = "sm" \/ ffMerged.head = "b0"

C14_Witness ==
  /\ ffScript = "sync"
  /\ ffPc = "done"
  /\ ffLocal[FeatureX].head = "sm"
  /\ ffRemote[FeatureX].head = "sm"
  /\ "r1" \in ffLocal[FeatureX].reach
  /\ "f1" \in ffLocal[FeatureX].reach

\* a step that removes a feature branch, locally or on origin
FeatureDeletionStep ==
  /\ (ffLocal # <<>> /\ ffLocal[FeatureX] # Absent /\ ffLocal'[FeatureX] = Absent) =>
       /\ FfSucceeded("finish_merge") /\ FfSucceeded("finish_push")
       /\ ffLocal[FeatureX].reach \subseteq ffRemote[Develop].reach
       /\ FullyMerged(ffLocal, FeatureX, ffBranch)
  /\ (ffRemote # <<>> /\ ffRemote[FeatureX] # Absent /\ ffRemote'[FeatureX] = Absent) =>
       /\ FfSucceeded("finish_merge") /\ FfSucceeded("finish_push")
       /\ ffRemote[FeatureX].reach \subseteq ffRemote[Develop].reach

\* C15: the feature branch is deleted, locally or on origin, only after
\* develop with the merge of that branch has been pushed, and the local
\* branch only when git finds it fully merged.
C15_DeleteOnlyAfterMergedStagingPushed == [][FeatureDeletionStep]_vars

C15_Witness ==
  /\ ffPc = "done"
  /\ ffLocal[FeatureX] = Absent
  /\ ffRemote[FeatureX] = Absent
  /\ "f1" \in ffRemote[Develop].reach

FfRepository == <<ffBranch, ffLocal, ffRemote, ffTracking>>

FfCheckPcs == {"sync_branch", "sync_clean", "finish_branch", "finish_clean"}

\* a step taken while the branch name and the working tree are being checked
FfValidationStep ==
  ffPc \in FfCheckPcs =>
    /\ UNCHANGED FfRepository
    /\ ffLog' = <<>>
    /\ ~(IsFeatureBranch(ffBranch) /\ ffClean) => ffPc' \in FfCheckPcs \cup {"exit"}
    /\ (ffPc \in {"sync_branch", "finish_branch"} /\ ~IsFeatureBranch(ffBranch))
         => ffPc' = "exit"
    /\ (ffPc \in {"sync_clean", "finish_clean"} /\ ~ffClean) => ffPc' = "exit"
    /\ ffPc' = "exit" => ffExit' = 1

\* C16: sync and finish both end with a non-zero exit, before any git command
\* that changes the repository or the remote, when the current branch is not
\* a feature/* branch or the working tree has staged or unstaged changes.
C16_PreconditionsRejectBeforeMutation == [][FfValidationStep]_vars

C16_Witness ==
  /\ ffPc = "exit"
  /\ ffExit = 1
  /\ ffLog = <<>>
  /\ ffScript = "finish"
  /\ IsFeatureBranch(ffBranch)
  /\ ~ffClean


(***************************************************************************)
(* TagRebuilder: preconditions and the empty classification                *)
(***************************************************************************)
RtBeforeTagChanges == {"precheck", "update", "exit"}

\* a step that can only bring in tags that git fetch found on origin
RtOnlyFetchesTags ==
  /\ remoteTags' = remoteTags
  /\ \A n \in DOMAIN localTags : n \in DOMAIN localTags' /\ localTags'[n] = localTags[n]
  /\ \A n \in DOMAIN localTags' \ DOMAIN localTags :
       n \in DOMAIN remoteTags /\ localTags'[n] = remoteTags[n]

RtAbortsBeforeTagChanges ==
  /\ rtPc \in RtBeforeTagChanges
  /\ rtPc = "exit" => rtExit = 1

\* C17: outside a repository, with a dirty working tree, or with main or
\* develop unresolvable, the TagRebuilder ends with a non-zero exit before it
\* deletes or creates a tag.
C17_AbortsUnlessBothBranchesResolve ==
  ~(rtEnv.inRepo /\ rtEnv.clean /\ rtEnv.hasMain /\ rtEnv.hasDevelop)
    => RtAbortsBeforeTagChanges

RtUnfitStep ==
  ~(rtEnv.inRepo /\ rtEnv.clean /\ rtEnv.hasMain) =>
    /\ RtAbortsBeforeTagChanges
    /\ RtOnlyFetchesTags
    /\ rtPc' \in RtBeforeTagChanges
    /\ rtPc' = "exit" => rtExit' = 1

\* C17 (amended): outside a repository, with a dirty working tree, or with
\* main unresolvable, the TagRebuilder ends with a non-zero exit before it
\* deletes or creates a tag and without touching the remote; develop is
\* updated only when it resolves and its absence does not stop the run.
C17_AbortsUnlessRepositoryCleanAndMainResolves == [][RtUnfitStep]_vars

C17_Witness ==
  /\ rtPc = "exit"
  /\ rtExit = 1
  /\ ~rtEnv.hasMain
  /\ TagLegacy \in DOMAIN localTags
  /\ TagV002 \in DOMAIN remoteTags

\* the step taken after the deletion loops when no commit is classified
RtZeroReleaseStep ==
  (rtPc = "classify" /\ ReleasePoints = <<>>) =>
    /\ rtPc' = "exit"
    /\ rtExit' = 1
    /\ UNCHANGED <<localTags, remoteTags>>
    /\ \A t \in Range(release_tags) \cup Range(semver_tags) : t \notin DOMAIN localTags
    /\ NamesWithPrefix(localTags, SemverPrefix) = {}
    /\ NamesWithPrefix(localTags, LegacyPrefix) = {}
    /\ \A n \in DOMAIN remoteTags :
         remoteTags[n] \in {OldTag(history[1].hash), OldTag(OffBranchHash)}

BlankDescription == <<" ", "|", " ">>

\* command lines with one form, with both, with --body next to a positional
\* string, and with nothing; descriptions with and without a non-empty entry
ArgvsWide ==
  [form : {"flags", "positional", "flags_and_positional", "body_and_positional", "none"},
   type : {"feat", "oops"}, scope : {"utils"},
   description : {DescriptionArg(1), BlankDescription},
   body : {NoBody, SomeBody(<<"b1">>)}]

InitCommitArgs ==
  /\ argv \in ArgvsWide
  /\ cwPc = "args"
  /\ branch \in {"develop", "feature/x"}
  /\ tree \in InitialTrees
  /\ commits = <<>>
  /\ pushed = 0
  /\ bindings = NoBindings
  /\ groups = <<>>
  /\ preview = <<>>
  /\ attempted = <<>>
  /\ commits_executed = <<>>
  /\ cwExit = -1
  /\ tree0 = tree
  /\ branch0 = branch
  /\ TagsIdle
  /\ RtIdle
  /\ RlIdle
  /\ FfIdle

SpecCommitArgs == InitCommitArgs /\ [][NextCommit]_vars

\* the run was turned away by the validation of its arguments: nothing was
\* bound and the repository is as it was
RejectedAtValidation ==
  /\ cwPc \in {"args", "exit"}
  /\ cwPc = "exit" =>
       /\ cwExit \in {1, 2}
       /\ bindings = NoBindings
       /\ branch = branch0
       /\ tree = tree0
       /\ commits = <<>>
       /\ pushed = 0

\* C19: in the flags form and in the positional form, a description without
\* a non-empty entry after splitting on '|' and trimming is rejected by the
\* validation, before anything in the repository changes.
C19_EmptyDescriptionRejectedBeforeMutation ==
  (argv.form \in {"flags", "positional"} /\ SplitDescriptions(argv.description) = <<>>)
    => RejectedAtValidation

\* C20: a structured flag (--type, --scope, --description or --body) given
\* together with a positional specification is always rejected by the
\* conflict check, before anything in the repository changes.
C20_FlagWithPositionalAlwaysConflicts ==
  (\/ argv.form = "flags_and_positional"
   \/ argv.form = "body_and_positional" /\ argv.body.some)
    => RejectedAtValidation


(***************************************************************************)
(* ReleaseManager: exclusivity of the input forms                          *)
(***************************************************************************)
StructuredFlags == {"type", "scope", "description", "body"}

\* a structured flag was given with a non-empty value
RlFlagWithValue(a) == \E f \in StructuredFlags : a[f] # <<>>

\* a structured flag appears on the command line, whatever its value
RlFlagSupplied(a) == RlFlagWithValue(a) \/ a.empty_flags # {}

RlRejectedAtArguments == rlPc = "exit" /\ rlExit = 1 /\ rlLog = <<>>

Last(s) == s[Len(s)]

\* the second components of a list of (message, group-key) pairs
KeysOf(pairs) == [i \in 1..Len(pairs) |-> pairs[i][2]]

\* one iteration of the loop of execute_commits: the group it entered gets
\* its pair exactly when a commit was created (staging and commit succeeded)
\* and origin/develop received it (push succeeded)
ExecuteGroupStep ==
  attempted' # attempted =>
    IF Len(commits') = Len(commits) + 1 /\ pushed' = Len(commits')
    THEN commits_executed' =
           Append(commits_executed, <<Last(commits').msg, Last(attempted')>>)
    ELSE commits_executed' = commits_executed

\* every pair names an attempted group and the message of the commit made
\* for that group, no group has two pairs, and the pairs are in group order
ExecutedPairsInGroupOrder ==
  /\ StrictlyAscending(KeysOf(commits_executed))
  /\ \A i \in 1..Len(commits_executed) :
       /\ commits_executed[i][2] \in Range(attempted)
       /\ \E c \in 1..Len(commits) :
            /\ commits[c].group = commits_executed[i][2]
            /\ commits[c].msg = commits_executed[i][1]
            /\ c <= pushed

\* C22: the list returned by execute_commits holds, in group order, exactly
\* one (message, group-key) pair for each group whose staging, commit and
\* push all succeeded, and no pair for a group where one of the steps failed.
C22_ReturnsPairsOfFullySucceededGroups ==
  []ExecutedPairsInGroupOrder /\ [][ExecuteGroupStep]_vars

\* three groups: the first and the third fully succeeded, the second failed
C22_Witness ==
  /\ cwPc = "done"
  /\ Len(attempted) = 3
  /\ Len(commits) = 2
  /\ KeysOf(commits_executed) = <<attempted[1], attempted[3]>>


(***************************************************************************)
(* Commit workflow: description of each group                              *)
(***************************************************************************)
\* 0-based position of group k among the groups sorted by key
GroupPosition(k) == Cardinality({j \in DOMAIN groups : StrLess(j, k)})

\* descriptions[min(p, n - 1)], 0-based
DescriptionAtPosition(descriptions, pos) ==
  IF pos < Len(descriptions) THEN descriptions[pos + 1]
  ELSE descriptions[Len(descriptions)]

\* C23: with a non-empty description list of length n and the groups sorted
\* by key, the commit of the group at 0-based position p is made with
\* descriptions[min(p, n-1)]: each of the first n groups has its own
\* description and every later group has the last one, whichever earlier
\* groups failed.
C23_GroupGetsDescriptionOfItsPosition ==
  \A i \in 1..Len(commits) :
    commits[i].msg =
      create_commit_message(bindings.commit_type.val, bindings.scope.val,
        DescriptionAtPosition(bindings.descriptions.val, GroupPosition(commits[i].group)),
        bindings.body.val)

\* two descriptions, three groups: the first two groups failed and the third,
\* beyond the end of the list, was committed
C23_Witness ==
  /\ cwPc = "done"
  /\ Len(bindings.descriptions.val) = 2
  /\ Len(attempted) = 3
  /\ Len(commits) = 1
  /\ commits[1].group = attempted[3]


(***************************************************************************)
(* group_files_by_directory: partition                                     *)
(***************************************************************************)
\* the paths the grouping of this run was given
GroupedPaths == get_modified_files(tree0)

\* k is the directory that holds path p directly: p is k, a "/" and one
\* more component (a trailing "/" of a directory entry set aside)
HoldsDirectly(k, p) ==
  \E name \in {"a", "b", "r", "s", "x", "y", "z"} :
    p \in {k \o <<"/", name>>, k \o <<"/", name, "/">>}

AtRepositoryRoot(p) == \A i \in 1..(Len(p) - 1) : p[i] # "/"

StrictPartition(g, paths) ==
  /\ \A k \in DOMAIN g : g[k] # {} /\ g[k] \subseteq paths
  /\ \A p \in paths : Cardinality({k \in DOMAIN g : p \in g[k]}) = 1
  /\ \A k \in DOMAIN g : \A p \in g[k] :
       IF AtRepositoryRoot(p) THEN k = <<"r", "o", "o", "t">> ELSE HoldsDirectly(k, p)

\* C24: with the wildcard flag off, group_files_by_directory returns a
\* strict partition of its input: every path is in exactly one group, the
\* key of that group is the path's immediate parent directory, or "root"
\* for a path at the repository root, and no group is empty.
C24_GroupingIsStrictPartition ==
  (cwPc \notin {"args", "branch", "status"} /\ groups # <<>> /\ bindings.scope.val # "*")
    => StrictPartition(groups, GroupedPaths)

\* a root file and an untracked top-level directory share the group "root",
\* and a/x and a/b/y are in the groups "a" and "a/b"
C24_Witness ==
  /\ cwPc = "confirm"
  /\ bindings.scope.val # "*"
  /\ DOMAIN groups = {RootKey, <<"a">>, <<"a", "/", "b">>}
  /\ Cardinality(groups[RootKey]) = 2
  /\ FileAX \in groups[<<"a">>]
  /\ FileABY \in groups[<<"a", "/", "b">>]


(***************************************************************************)
(* parse_comma_separated_format: inputs                                    *)
(***************************************************************************)
TypeParts == {<<"feat">>, <<" ", "fix", " ">>, <<"oops">>, <<>>}

ScopeParts == {<<"utils">>, <<"*">>, <<" ", "dag">>, <<"core">>}

\* the "|"-separated segments of the third part
SegmentLists ==
  {<< <<"d1">> >>,
   << <<"d1">>, <<"d2">> >>,
   << <<" ", "d1", " ", "d3", " ">>, <<" ">>, <<"d2">> >>,
   << <<" ">> >>}

BodyParts == {<<"b1">>, <<"b1", ",", "b2">>, <<" ", "b1", " ">>, <<>>}

\* the segments joined with "|"
RECURSIVE JoinSegments(_)
JoinSegments(segs) ==
  IF Len(segs) = 1 THEN segs[1]
  ELSE segs[1] \o <<"|">> \o JoinSegments(Tail(segs))

\* command lines that give one positional string: its comma-separated parts
\* and, for the third part, its segments
StringArgvs ==
  LET long == {[form |-> "string", segments |-> g, parts |-> <<t, sc, JoinSegments(g)>> \o b] :
                 t \in TypeParts, sc \in ScopeParts, g \in SegmentLists,
                 b \in {<<>>} \cup {<<x>> : x \in BodyParts}}
      short == {[form |-> "string", segments |-> <<>>, parts |-> ps] :
                  ps \in {<< <<>> >>, << <<"feat">> >>, << <<"feat">>, <<"utils">> >>}}
  IN long \cup short

\* command lines of the flags form, --body "" among them
FlagArgvs ==
  LET given == {a \in Argvs : a.form = "flags"}
  IN given \cup {[a EXCEPT !.body = SomeBody(<<>>)] : a \in given}

\* working trees in which a/b/y and s/z are unchanged
ParseTrees == {t \in InitialTrees : t[FileABY] = Clean /\ t[FileSZ] = Clean}

InitParse ==
  /\ argv \in StringArgvs \cup FlagArgvs
  /\ cwPc = "args"
  /\ branch \in {"develop", "feature/x"}
  /\ tree \in ParseTrees
  /\ commits = <<>>
  /\ pushed = 0
  /\ bindings = NoBindings
  /\ groups = <<>>
  /\ preview = <<>>
  /\ attempted = <<>>
  /\ commits_executed = <<>>
  /\ cwExit = -1
  /\ tree0 = tree
  /\ branch0 = branch
  /\ TagsIdle
  /\ RtIdle
  /\ RlIdle
  /\ FfIdle

SpecParse == InitParse /\ [][NextCommit]_vars


(***************************************************************************)
(* parse_comma_separated_format: properties                                *)
(***************************************************************************)
\* the run was given one positional string of at least three parts and
\* main is past the parsing of its arguments
StringParsed == argv.form = "string" /\ Len(argv.parts) >= 3 /\ cwPc # "args"

\* the function returned a specification, which main has bound
ParseReturned == bindings.commit_type.bound

Trimmed(part) == Strip(part)

TypeOfPart(part) == IF Len(Trimmed(part)) = 1 THEN Trimmed(part)[1] ELSE "?"

PartIsValidType(part) ==
  TypeOfPart(part) \in {"feat", "fix", "refactor", "chore", "docs", "test", "style", "perf"}

PartIsValidScope(part) ==
  TypeOfPart(part) \in {"utils", "controle", "sql", "dag", "config", "monitoring",
                        "scripts", "docs", "*"}

\* the trimmed, non-empty segments, in their order
TrimmedSegments(segs) ==
  SelectSeq([i \in 1..Len(segs) |-> Trimmed(segs[i])], LAMBDA x : x # <<>>)

\* type, scope and descriptions of the result are those of the first three
\* parts
ParsedHead ==
  /\ bindings.commit_type = Bound(TypeOfPart(argv.parts[1]))
  /\ bindings.scope = Bound(TypeOfPart(argv.parts[2]))
  /\ bindings.description = Bound(TrimmedSegments(argv.segments))

\* C25: the positional string is split on commas into at most 4 parts; for a
\* valid type and scope the result has that type and scope, descriptions
\* equal to the trimmed non-empty "|"-separated segments of the third part
\* in their order, and body equal to everything after the third comma, or
\* None when there are exactly three parts.
C25_ParseReturnsPartsAndVerbatimBody ==
  (StringParsed /\ ParseReturned) =>
    /\ ParsedHead
    /\ bindings.body = Bound(IF Len(argv.parts) = 4 THEN SomeBody(argv.parts[4])
                             ELSE NoBody)

\* C25 (amended): as C25, with the body equal to everything after the third
\* comma with its surrounding blanks trimmed; a result is returned whenever
\* type and scope are valid and the third part has a non-empty segment.
C25_ParseReturnsPartsAndTrimmedBody ==
  StringParsed =>
    /\ ParseReturned =>
         /\ ParsedHead
         /\ bindings.body = Bound(IF Len(argv.parts) = 4
                                  THEN SomeBody(Trimmed(argv.parts[4])) ELSE NoBody)
    /\ (/\ PartIsValidType(argv.parts[1])
        /\ PartIsValidScope(argv.parts[2])
        /\ TrimmedSegments(argv.segments) # <<>>) => ParseReturned

\* " fix ,*, d1 d3 | |d2,b1,b2": two descriptions and a body with a comma
C25_Witness ==
  /\ StringParsed
  /\ argv.parts[1] = <<" ", "fix", " ">>
  /\ argv.parts[2] = <<"*">>
  /\ Len(argv.segments) = 3
  /\ Len(argv.parts) = 4
  /\ bindings.commit_type = Bound("fix")
  /\ bindings.description = Bound(<< <<"d1", " ", "d3">>, <<"d2">> >>)
  /\ bindings.body = Bound(SomeBody(<<"b1", ",", "b2">>))


\* what the message of the ValueError names for the string of this run
ParseError == parse_comma_separated_format(JoinParts(argv.parts)).error

\* the run ended at the parsing of its arguments with exit code 1 and
\* nothing bound
ParseRejected == cwPc = "exit" /\ cwExit = 1 /\ ~ParseReturned

\* C26: parse_comma_separated_format fails with a validation error and
\* returns no specification for every input with fewer than 3
\* comma-separated parts, with a type outside the eight types or with a
\* scope outside the allowed set of the caller; the error names the
\* offending value and the allowed set.
C26_InvalidInputFailsNamingValueAndAllowedSet ==
  (argv.form = "string" /\ cwPc # "args") =>
    /\ Len(argv.parts) < 3 =>
         /\ ParseRejected
         /\ ParseError.kind = "format"
         /\ ParseError.value = JoinParts(argv.parts)
         /\ ParseError.allowed = {"type,scope,description[,body]"}
    /\ (Len(argv.parts) >= 3 /\ ~PartIsValidType(argv.parts[1])) =>
         /\ ParseRejected
         /\ ParseError.kind = "type"
         /\ ParseError.value = Trimmed(argv.parts[1])
         /\ ParseError.allowed =
              {"feat", "fix", "refactor", "chore", "docs", "test", "style", "perf"}
    /\ (/\ Len(argv.parts) >= 3
        /\ PartIsValidType(argv.parts[1])
        /\ ~PartIsValidScope(argv.parts[2])) =>
         /\ ParseRejected
         /\ ParseError.kind = "scope"
         /\ ParseError.value = Trimmed(argv.parts[2])
         /\ ParseError.allowed = {"utils", "controle", "sql", "dag", "config",
                                  "monitoring", "scripts", "docs", "*"}

\* "feat,core,d1": a valid type with a scope outside the allowed set
C26_Witness ==
  /\ argv.form = "string"
  /\ ParseRejected
  /\ argv.parts = << <<"feat">>, <<"core">>, <<"d1">> >>
  /\ ParseError.kind = "scope"
  /\ ParseError.value = <<"core">>


(***************************************************************************)
(* create_commit_message: properties                                       *)
(***************************************************************************)
\* "{type}({displayScope}): {description}", then a blank line and the body
\* when there is one
Rendered(type, scope, description, body) ==
  <<type, "(", IF scope = "*" THEN "all" ELSE scope, ")", ":", " ">>
    \o description
    \o (IF body.some /\ body.val # <<>> THEN <<"\n", "\n">> \o body.val ELSE <<>>)

RenderedForPosition(pos) ==
  Rendered(bindings.commit_type.val, bindings.scope.val,
           DescriptionAtPosition(bindings.descriptions.val, pos), bindings.body.val)

\* C27: create_commit_message renders "{type}({displayScope}): {description}"
\* with displayScope "all" for the scope "*" and the scope itself otherwise,
\* followed by a blank line and the body verbatim when a body is present and
\* by nothing otherwise; it is deterministic: the preview and the commit of
\* a group carry the same message.
C27_MessageRenderedFromFields ==
  /\ \A i \in 1..Len(preview) : preview[i].msg = RenderedForPosition(i - 1)
  /\ \A i \in 1..Len(commits) :
       /\ commits[i].msg = RenderedForPosition(GroupPosition(commits[i].group))
       /\ \E j \in 1..Len(preview) :
            preview[j].group = commits[i].group /\ preview[j].msg = commits[i].msg

\* a commit made with the scope "*" and a body
C27_Witness ==
  /\ cwPc = "done"
  /\ Len(commits) = 1
  /\ commits[1].msg = <<"feat", "(", "all", ")", ":", " ", "d1", "\n", "\n", "b1">>
  /\ preview[1].msg = commits[1].msg


(***************************************************************************)
(* ReleaseManager: --no-tag                                                *)
(***************************************************************************)
RlCommandsRun == [i \in 1..Len(rlLog) |-> rlLog[i].cmd]

\* the steps outside the tag block were all run, in the order of a tagged
\* run, and left origin/main equal to the merged local main and both local
\* branches equal to origin's, with develop checked out
RlReleasedAndResynchronised ==
  /\ \A i \in 1..Len(rlLog) : rlLog[i].ok
  /\ RlCommandsRun = RlCommandsBeforeTag \o RlCommandsOfResync
  /\ rlRemote["main"] = rlLocal["main"]
  /\ rlRemote["develop"] = rlLocal["develop"]
  /\ rlLocal["develop"].reach \subseteq rlLocal["main"].reach
  /\ rlMerge.id # "none" => rlLocal["main"].head = rlMerge.id
  /\ rlBranch = "develop"

RlNoTaggingStep ==
  /\ \A i \in 1..Len(rlLog) : rlLog[i].cmd \notin TaggingSteps
  /\ semver_tag = <<>>
  /\ rlPc \notin TaggingSteps

\* the local tags are those of the start and the tags of origin that the
\* fetch brought
RlLocalTagsOnlyFetched ==
  /\ DOMAIN localTags0 \subseteq DOMAIN localTags
  /\ DOMAIN localTags \subseteq DOMAIN localTags0 \cup DOMAIN remoteTags0
  /\ \A n \in DOMAIN localTags :
       localTags[n] = IF n \in DOMAIN localTags0 THEN localTags0[n] ELSE remoteTags0[n]

\* C28: a run with --no-tag creates and pushes no tag, so the local and the
\* remote tag sets are unchanged, while the update of both branches, the
\* merge, the push of main and the final re-synchronisation are performed as
\* in a tagged run.
C28_NoTagLeavesTagSetsUnchanged ==
  rlArgs.no_tag =>
    /\ RlNoTaggingStep
    /\ localTags = localTags0
    /\ remoteTags = remoteTags0
    /\ rlPc = "done" => RlReleasedAndResynchronised

\* C28 (amended): a run with --no-tag creates and pushes no tag: the remote
\* tag set is unchanged and the local tag set gains only the tags of origin
\* that git fetch brings, while the update of both branches, the merge, the
\* push of main and the final re-synchronisation are performed as in a
\* tagged run.
C28_NoTagCreatesAndPushesNoTag ==
  rlArgs.no_tag =>
    /\ RlNoTaggingStep
    /\ RlLocalTagsOnlyFetched
    /\ remoteTags = remoteTags0
    /\ rlPc = "done" => RlReleasedAndResynchronised

C28_Witness ==
  /\ rlArgs.no_tag
  /\ rlPc = "done"
  /\ rlExit = 0
  /\ rlMerge.id = "m1"
  /\ rlRemote["main"].head = "m1"
  /\ TagV009 \in DOMAIN localTags0
  /\ DOMAIN localTags = DOMAIN localTags0 \cup {TagLegacy}
  /\ TagLegacy \notin DOMAIN localTags0


(***************************************************************************)
(* Commit workflow: exit code                                              *)
(***************************************************************************)
CwFinished == cwPc \in {"exit", "done"}

\* some group entered by execute_commits did not get through staging,
\* commit and push
SomeGroupFailed == Len(commits_executed) < Len(attempted)

\* C29: a run of the commit workflow exits with code 0 only on success and
\* with code 1 on any validation, precondition or git command failure,
\* rejected flag values and runs in which the staging, commit or push of a
\* group failed included.
C29_ExitZeroOnlyOnSuccessElseOne ==
  CwFinished =>
    /\ cwExit \in {0, 1}
    /\ SomeGroupFailed => cwExit = 1


(***************************************************************************)
(* Shell workflows: a failing git command ends the run                     *)
(***************************************************************************)
\* runs of git-release.sh and runs of git-feature-sync.sh / -finish.sh
InitShell == InitRelease \/ InitFeature

NextShell == NextRelease \/ NextFeature

SpecShell == InitShell /\ [][NextShell]_vars

\* the git commands of sync and of finish up to the push of develop
FatalFeatureCommands ==
  {"sync_fetch", "sync_checkout_develop", "sync_pull", "sync_checkout_feature",
   "sync_merge", "sync_push", "finish_checkout_develop", "finish_pull",
   "finish_merge", "finish_push"}

\* the two git commands of git-release.sh whose status is only read: the
\* listing of the tags and the probe for the new tag name
ReleaseProbes == {"compute_tag", "verify_tag"}

\* entry i of the release log is the last one and the run ended non-zero
RlEndedAt(i) == i = Len(rlLog) /\ rlPc = "exit" /\ rlExit = 1

FfEndedAt(i) == i = Len(ffLog) /\ ffPc = "exit" /\ ffExit = 1

NoCommandTwice(log) ==
  \A i, j \in 1..Len(log) : log[i].cmd = log[j].cmd => i = j

FeatureFailureIsFatal ==
  /\ \A i \in 1..Len(ffLog) :
       (ffLog[i].cmd \in FatalFeatureCommands /\ ~ffLog[i].ok) => FfEndedAt(i)
  /\ NoCommandTwice(ffLog)

\* C30: in feature sync, in feature finish up to and including the push of
\* develop, and in the release workflow, the first git command that exits
\* non-zero is fatal: the run exits non-zero at that step, the step is not
\* retried and no later git command of the workflow is executed.
C30_FirstFailingGitCommandIsFatal ==
  /\ FeatureFailureIsFatal
  /\ \A i \in 1..Len(rlLog) : rlLog[i].status # 0 => RlEndedAt(i)
  /\ NoCommandTwice(rlLog)

\* C30 (amended): as C30 for every git command that the scripts run as a
\* statement of their own.  In the release workflow the tag listing and the
\* probe for the new tag name are read, not obeyed: a failed listing is
\* taken for "no tags" (the next tag is v0.0.1), and the probe exits
\* non-zero exactly when the run goes on.
C30_FailingGitStatementIsFatal ==
  /\ FeatureFailureIsFatal
  /\ \A i \in 1..Len(rlLog) :
       /\ (rlLog[i].cmd \notin ReleaseProbes /\ rlLog[i].status # 0) => RlEndedAt(i)
       /\ rlLog[i].cmd \notin ReleaseProbes => (rlLog[i].ok <=> rlLog[i].status = 0)
       /\ rlLog[i].cmd = "verify_tag" => (rlLog[i].ok <=> rlLog[i].status # 0)
       /\ (rlLog[i].cmd = "compute_tag" /\ rlLog[i].status # 0) =>
            /\ rlLog[i].ok
            /\ semver_tag = <<"v", "0", ".", "0", ".", "1">>
       /\ ~rlLog[i].ok => RlEndedAt(i)
  /\ NoCommandTwice(rlLog)

\* the push of main failed after the merge commit was made: the run ended
\* there, with no tag step and no re-synchronisation
C30_Witness ==
  /\ rlPc = "exit"
  /\ rlExit = 1
  /\ rlMerge.id = "m1"
  /\ RlLast.cmd = "push_main"
  /\ RlLast.status # 0
  /\ Len(rlLog) = 7


(***************************************************************************)
(* TagRebuilder: the final push                                            *)
(***************************************************************************)
\* the v0.0.* tags that origin gets, or gets moved, by the step
RemoteCanonicalGained ==
  {n \in NamesWithPrefix(remoteTags', CanonicalPrefix) :
     n \notin DOMAIN remoteTags \/ remoteTags'[n] # remoteTags[n]}

\* the clone holds v0.0.i on the i-th release commit, for every i
RtAllTagsCreated ==
  /\ release_commits # <<>>
  /\ rtDone = Len(release_commits)
  /\ \A i \in 1..Len(release_commits) :
       /\ RetagName(i) \in DOMAIN localTags
       /\ localTags[RetagName(i)] =
            [target |-> release_commits[i], msg |-> RetagMessage(RetagName(i))]

\* the tag creation loop was left by a failing git tag -a
RtTagCreationFailed ==
  /\ rtPc = "exit"
  /\ release_commits # <<>>
  /\ rtDone < Len(release_commits)

RtFinalPushStep ==
  /\ RemoteCanonicalGained # {} =>
       /\ rtPc = "push"
       /\ RtAllTagsCreated
       /\ remoteTags' = PushForceTags(remoteTags, localTags)
       /\ rtPc' = "done"
  /\ (rtPc = "tag" /\ rtPc' = "exit") =>
       /\ rtExit' = 1
       /\ UNCHANGED <<localTags, remoteTags>>
  /\ rtPc \notin {"done", "exit"}

\* C31: origin gets v0.0.* tags from the run in one step only, the forced
\* push of all tags, taken once every v0.0.i has been created in the clone
\* and followed by no other step; when a tag creation fails the run ends
\* there with a non-zero exit and origin holds no tag made by the run.
C31_SingleForcePushAfterAllTagsCreated ==
  /\ [](RtTagCreationFailed =>
          /\ rtExit = 1
          /\ \A n \in DOMAIN remoteTags : remoteTags[n].msg # RetagMessage(n))
  /\ [][RtFinalPushStep]_vars

\* the second of three tag creations failed: v0.0.1 exists in the clone only
C31_Witness ==
  /\ RtTagCreationFailed
  /\ Len(release_commits) = 3
  /\ rtDone = 1
  /\ RetagName(1) \in DOMAIN localTags
  /\ RetagName(1) \notin DOMAIN remoteTags


(***************************************************************************)
(* TagRebuilder: the deletion phase                                        *)
(***************************************************************************)
RtDeleting == rtPc \in {"del_release", "del_semver"}

\* the tags the two loops walk, in the order they walk them
ListedTags == release_tags \o semver_tags

\* the tags whose iteration is over
RtProcessed == Len(rtLog) \div 2

\* iteration i ran both deletions for the i-th listed tag, and the local
\* one succeeded
RtIterationRan(i) ==
  /\ rtLog[2 * i - 1] = RtRan("tag_delete", ListedTags[i], TRUE)
  /\ rtLog[2 * i].cmd = "push_delete"
  /\ rtLog[2 * i].tag = ListedTags[i]

\* the local tags the deletion phase is about
LocalMatching ==
  NamesWithPrefix(localTags, LegacyPrefix) \cup NamesWithPrefix(localTags, SemverPrefix)

DeletionPhaseProcessesEveryTag ==
  /\ Len(rtLog) = 2 * RtProcessed
  /\ RtProcessed <= Len(ListedTags)
  /\ \A i \in 1..RtProcessed : RtIterationRan(i)
  /\ rtPc \in {"confirm", "del_release", "del_semver", "classify"} =>
       LocalMatching = {ListedTags[i] : i \in (RtProcessed + 1)..Len(ListedTags)}
  /\ (rtLog # <<>> /\ ~RtDeleting) => RtProcessed = Len(ListedTags)
  /\ rtPc \in {"classify", "tag", "push", "done"} => RtProcessed = Len(ListedTags)

\* an iteration of a deletion loop: the tag leaves the clone, origin loses
\* that tag or nothing, and the run goes on
RtDeletionStep ==
  RtDeleting =>
    LET t == ListedTags[RtProcessed + 1]
    IN /\ t \in DOMAIN localTags
       /\ localTags' = TagDelete(localTags, t)
       /\ remoteTags' = IF rtLog'[Len(rtLog')].status = 0
                        THEN TagDelete(remoteTags, t) ELSE remoteTags
       /\ t \notin DOMAIN remoteTags => rtLog'[Len(rtLog')].status # 0
       /\ Len(rtLog') = Len(rtLog) + 2
       /\ rtPc' # "exit"
       /\ rtExit' = -1

MergedStagingPushed ==
  /\ FfSucceeded("finish_merge")
  /\ FfSucceeded("finish_push")
  /\ ffRemote[Develop] = ffLocal[Develop]
  /\ ffLocal[feature_branch] # Absent =>
       ffLocal[feature_branch].reach \subseteq ffRemote[Develop].reach

\* C33: in feature finish the local deletion, failed or not, is followed by
\* the attempt to delete the remote branch, and after that attempt, failed
\* or not, the run ends with exit status 0 and develop with the merge on
\* origin; a deletion that failed left its branch where it was.
C33_FailedBranchDeletionIsNotFatal ==
  \A i \in 1..Len(ffLog) :
    /\ ffLog[i].cmd = "finish_delete_local" =>
         /\ MergedStagingPushed
         /\ ffPc # "exit"
         /\ IF i = Len(ffLog)
            THEN ffPc = "finish_delete_remote" /\ ffExit = -1
            ELSE ffLog[i + 1].cmd = "finish_delete_remote" /\ i + 1 = Len(ffLog)
         /\ ffLog[i].ok <=> ffLocal[feature_branch] = Absent
    /\ ffLog[i].cmd = "finish_delete_remote" =>
         /\ i = Len(ffLog)
         /\ ffLog[i - 1].cmd = "finish_delete_local"
         /\ ffPc = "done"
         /\ ffExit = 0
         /\ ffLog[i].ok => ffRemote[feature_branch] = Absent

\* both deletions failed, the remote one with the branch present on origin
C33_Witness ==
  /\ ffPc = "done"
  /\ ffExit = 0
  /\ Len(ffLog) >= 2
  /\ ffLog[Len(ffLog) - 1] = [cmd |-> "finish_delete_local", ok |-> FALSE]
  /\ FfLast = [cmd |-> "finish_delete_remote", ok |-> FALSE]
  /\ ffLocal[feature_branch] # Absent
  /\ ffRemote[feature_branch] # Absent
  /\ "fm" \in ffRemote[Develop].reach


(***************************************************************************)
(* Commit workflow: commits whose push failed                              *)
(***************************************************************************)
\* the commits of the batch whose own push failed: the group has a commit
\* and no pair in the returned list
PushFailedCommits ==
  {c \in 1..Len(commits) : commits[c].group \notin Range(KeysOf(commits_executed))}

\* commit number c is on origin's develop
Published(c) == c <= pushed

\* C34: at the end of the batch no commit whose own push failed is on
\* origin, whatever happened to the groups after it.
C34_PushFailureLeavesCommitLocalOnly ==
  cwPc = "done" => \A c \in PushFailedCommits : ~Published(c)

\* C34 (amended): a commit whose own push failed stays ahead of origin
\* until the push of a later group succeeds, which publishes it together
\* with that group's commit; at the end of the batch it is local-only
\* exactly when no later push succeeded, and it is never among the returned
\* pairs.
C34_PushFailureLeavesCommitLocalUntilLaterPush ==
  cwPc \in {"loop", "done"} =>
    \A c \in 1..Len(commits) :
      Published(c) <=>
        \E later \in c..Len(commits) : later \notin PushFailedCommits

\* the first group's push failed and the second group's push published both
\* commits
C34_Witness ==
  /\ cwPc = "done"
  /\ Len(commits) = 2
  /\ PushFailedCommits = {1}
  /\ Published(1)
  /\ Len(commits_executed) = 1


(***************************************************************************)
(* Commit workflow: preview against execution                              *)
(***************************************************************************)
PreviewedGroups == [i \in 1..Len(preview) |-> preview[i].group]

\* C35: the groups are executed in the order of the preview, and every
\* commit carries the message the preview computed for its group, whichever
\* earlier groups failed.
C35_CommitMessageIsPreviewedMessage ==
  cwPc \in {"loop", "done"} =>
    /\ Len(attempted) <= Len(preview)
    /\ attempted = SubSeq(PreviewedGroups, 1, Len(attempted))
    /\ cwPc = "done" => attempted = PreviewedGroups
    /\ \A c \in 1..Len(commits) :
         \E i \in 1..Len(attempted) :
           /\ attempted[i] = commits[c].group
           /\ preview[i] = [group |-> commits[c].group, msg |-> commits[c].msg]

\* the first group failed and the commit of the second group carries the
\* second previewed message, which differs from the first
C35_Witness ==
  /\ cwPc = "done"
  /\ Len(attempted) = 3
  /\ Len(commits) = 2
  /\ commits[1].group = attempted[2]
  /\ commits[2].group = attempted[3]
  /\ commits[1].msg = preview[2].msg
  /\ preview[1].msg # preview[2].msg


(***************************************************************************)
(* ReleaseManager's merge commits as TagRebuilder classifies them          *)
(***************************************************************************)
\* the characters of a word of the command line; any other token is one
\* character
Spell(word) ==
  CASE word = "chore"   -> <<"c", "h", "o", "r", "e">>
    [] word = "docs"    -> <<"d", "o", "c", "s">>
    [] word = "fix"     -> <<"f", "i", "x">>
    [] word = "release" -> <<"r", "e", "l", "e", "a", "s", "e">>
    [] word = "d1"      -> <<"d", "1">>
    [] word = "d2"      -> <<"d", "2">>
    [] OTHER            -> <<word>>

RECURSIVE SpellAll(_)
SpellAll(words) ==
  IF words = <<>> THEN <<>> ELSE Spell(Head(words)) \o SpellAll(Tail(words))

\* %s of the merge commit: the first line of its message
RlMergeSubject == SpellAll(rlMerge.msg[1])

\* the merge commit, classified by the loop of git-release-retag.sh
RlMergeClassified ==
  CollectReleaseCommits(
    <<LogLine([hash |-> rlMerge.id, subject |-> RlMergeSubject])>>) = <<rlMerge.id>>

\* C36: every merge commit the ReleaseManager creates on main is one that
\* the TagRebuilder classifies as a release point.
C36_EveryReleaseMergeIsClassified ==
  rlMerge.id # "none" => RlMergeClassified


(***************************************************************************)
(* TagRebuilder: tags with other names                                     *)
(***************************************************************************)
\* the names the TagRebuilder is about: release-* and v*
RetagNames(tags) == NamesWithPrefix(tags, LegacyPrefix) \cup NamesWithPrefix(tags, SemverPrefix)

\* a step that leaves every tag with another name as it is
OtherTagsKeptStep ==
  /\ \A n \in DOMAIN localTags \ RetagNames(localTags) :
       n \in DOMAIN localTags' /\ localTags'[n] = localTags[n]
  /\ \A n \in DOMAIN remoteTags \ RetagNames(remoteTags) :
       n \in DOMAIN remoteTags' /\ remoteTags'[n] = remoteTags[n]

\* C37: no step of the TagRebuilder, the final push included, changes the
\* target or the message of a tag whose name matches neither release-* nor
\* v*, in the clone or on origin.
C37_OtherTagsKeepTargetAndMessage == [][OtherTagsKeptStep]_vars


(***************************************************************************)
(* Two runs of git-release.sh, with tagging, from separate clones          *)
(*                                                                         *)
(* Each run has its own clone (branches and tags) and walks lines 277-367  *)
(* of the script; origin's branches (rlRemote) and tags (remoteTags) are   *)
(* shared.  The steps of the two runs interleave freely.  A command fails  *)
(* here only when git refuses it because of what the other run has done.   *)
(***************************************************************************)
Runs == {1, 2}

RunMergeId(r) == IF r = 1 THEN "m1" ELSE "m2"

\* the titles of the two releases
RunTitle(r) ==
  <<"chore", "(", "release", ")", ":", " ", IF r = 1 THEN "d1" ELSE "d2">>

\* develop of a clone: origin's develop, with a commit of its own on top
\* when the clone has work that was never pushed
CloneDevelop(r, unpushed) ==
  IF unpushed
  THEN Ref(IF r = 1 THEN "u1" ELSE "u2", {"c1", "d1", IF r = 1 THEN "u1" ELSE "u2"})
  ELSE Ref("d1", {"c1", "d1"})

InitReleasePair ==
  /\ rlRemote = [b \in {"main", "develop"} |->
                   IF b = "main" THEN Ref("c1", {"c1"}) ELSE Ref("d1", {"c1", "d1"})]
  /\ remoteTags \in {NoTags, [n \in {TagV009} |-> OldTag("c1")]}
  /\ \E unpushed \in [Runs -> BOOLEAN] :
       runs = [r \in Runs |->
                 [pc |-> "fetch", branch |-> "develop",
                  local |-> [b \in {"main", "develop"} |->
                               IF b = "main" THEN Ref("c1", {"c1"})
                               ELSE CloneDevelop(r, unpushed[r])],
                  tags |-> remoteTags, title |-> RunTitle(r), semver_tag |-> <<>>,
                  merge |-> "none", exit |-> -1]]
  /\ localTags = NoTags
  /\ rlArgs = [no_tag |-> FALSE, type |-> <<>>, scope |-> <<>>, description |-> <<>>,
               body |-> <<>>, raw_spec |-> <<>>]
  /\ rlPc = "idle"
  /\ rlClean = TRUE
  /\ rlBranch = "develop"
  /\ rlLocal = <<>>
  /\ merge_title = <<>>
  /\ commit_body = <<>>
  /\ semver_tag = <<>>
  /\ rlMerge = NoMerge
  /\ rlLog = <<>>
  /\ rlExit = -1
  /\ localTags0 = NoTags
  /\ remoteTags0 = remoteTags
  /\ CwIdle
  /\ RtIdle
  /\ FfIdle

\* what a step of a run leaves alone, besides origin
PrFrame ==
  <<rlArgs, rlPc, rlClean, rlBranch, rlLocal, merge_title, commit_body, semver_tag,
    rlMerge, rlLog, rlExit, localTags0, remoteTags0, localTags, cwVars, rtVars, ffVars>>

\* the run goes on to the command after `step` with its clone as in rec
PrGoesOn(r, step, rec) ==
  runs' = [runs EXCEPT ![r] =
             [rec EXCEPT !.pc = RlAfter(step, TRUE),
                         !.exit = IF RlAfter(step, TRUE) = "done" THEN 0 ELSE rec.exit]]

\* set -e: the failing command ends the run
PrExits(r) == runs' = [runs EXCEPT ![r].pc = "exit", ![r].exit = 1]

\* line 278: git fetch --quiet origin
PrFetch(r) ==
  /\ runs[r].pc = "fetch"
  /\ PrGoesOn(r, "fetch",
       [runs[r] EXCEPT !.tags = FetchTags(@, remoteTags,
                                 rlRemote["main"].reach \cup rlRemote["develop"].reach)])
  /\ UNCHANGED <<rlRemote, remoteTags, PrFrame>>

\* lines 281, 285, 363, 366: git checkout <branch>
PrCheckout(r, step, target) ==
  /\ runs[r].pc = step
  /\ PrGoesOn(r, step, [runs[r] EXCEPT !.branch = GitCheckout(@, target)])
  /\ UNCHANGED <<rlRemote, remoteTags, PrFrame>>

\* lines 282, 286, 364, 367: git pull --quiet origin <branch>; it brings the
\* branch and no tag
PrPull(r, step, b) ==
  /\ runs[r].pc = step
  /\ PrGoesOn(r, step, [runs[r] EXCEPT !.local[b] = GitPull(@, rlRemote[b])])
  /\ UNCHANGED <<rlRemote, remoteTags, PrFrame>>

\* line 307: git merge --no-ff --quiet develop -F "$msg_file"
PrMergeDevelop(r) ==
  /\ runs[r].pc = "merge"
  /\ LET main == runs[r].local["main"]
         develop == runs[r].local["develop"]
     IN PrGoesOn(r, "merge",
          [runs[r] EXCEPT !.local["main"] = GitMergeNoFFAs(RunMergeId(r), main, develop),
                          !.merge = IF develop.reach \subseteq main.reach
                                    THEN "none" ELSE RunMergeId(r)])
  /\ UNCHANGED <<rlRemote, remoteTags, PrFrame>>

\* line 311: git push --quiet origin main; rejected when origin's main has
\* a commit the clone's main has not
PrPushMain(r) ==
  /\ runs[r].pc = "push_main"
  /\ IF rlRemote["main"].reach \subseteq runs[r].local["main"].reach
     THEN /\ rlRemote' = [rlRemote EXCEPT !["main"] = GitPushBranch(@, runs[r].local["main"])]
          /\ PrGoesOn(r, "push_main", runs[r])
     ELSE /\ PrExits(r)
          /\ UNCHANGED rlRemote
  /\ UNCHANGED <<remoteTags, PrFrame>>

\* lines 313-345: the next tag, from the tags of the clone
PrComputeTag(r) ==
  /\ runs[r].pc = "compute_tag"
  /\ LET next == NextSemverTag(runs[r].tags)
     IN IF next.ok
        THEN PrGoesOn(r, "compute_tag", [runs[r] EXCEPT !.semver_tag = next.tag])
        ELSE PrExits(r)
  /\ UNCHANGED <<rlRemote, remoteTags, PrFrame>>

\* lines 347-351: git rev-parse -q --verify refs/tags/$semver_tag
PrVerifyTagFree(r) ==
  /\ runs[r].pc = "verify_tag"
  /\ IF runs[r].semver_tag \notin DOMAIN runs[r].tags
     THEN PrGoesOn(r, "verify_tag", runs[r])
     ELSE PrExits(r)
  /\ UNCHANGED <<rlRemote, remoteTags, PrFrame>>

\* line 354: git tag -a "$semver_tag" -m "Release $semver_tag - $merge_title"
PrCreateTag(r) ==
  /\ runs[r].pc = "tag"
  /\ PrGoesOn(r, "tag",
       [runs[r] EXCEPT !.tags = GitTagHead(@, runs[r].semver_tag,
                                  ReleaseTagMessage(runs[r].semver_tag, runs[r].title),
                                  runs[r].local[runs[r].branch].head)])
  /\ UNCHANGED <<rlRemote, remoteTags, PrFrame>>

\* mutant: the tag is pushed with --force
GitPushTagForced(remote, name, tag) == TagPut(remote, name, tag)

\* git push origin <tag>: origin takes the tag unless it has another tag of
\* that name ("rejected ... already exists")
GitPushTag(remote, name, tag) ==
  IF name \in DOMAIN remote /\ remote[name] # tag THEN remote
  ELSE TagPut(remote, name, tag)

\* line 357: git push --quiet origin "$semver_tag"
PrPushTag(r) ==
  /\ runs[r].pc = "push_tag"
  /\ LET name == runs[r].semver_tag
         after == GitPushTag(remoteTags, name, runs[r].tags[name])
     IN /\ remoteTags' = after
        /\ IF after[name] = runs[r].tags[name]
           THEN PrGoesOn(r, "push_tag", runs[r])
           ELSE PrExits(r)
  /\ UNCHANGED <<rlRemote, PrFrame>>

NextReleasePair ==
  \E r \in Runs :
    \/ PrFetch(r)
    \/ PrCheckout(r, "checkout_develop", "develop")
    \/ PrPull(r, "pull_develop", "develop")
    \/ PrCheckout(r, "checkout_main", "main")
    \/ PrPull(r, "pull_main", "main")
    \/ PrMergeDevelop(r)
    \/ PrPushMain(r)
    \/ PrComputeTag(r)
    \/ PrVerifyTagFree(r)
    \/ PrCreateTag(r)
    \/ PrPushTag(r)
    \/ PrCheckout(r, "resync_checkout_main", "main")
    \/ PrPull(r, "resync_pull_main", "main")
    \/ PrCheckout(r, "resync_checkout_develop", "develop")
    \/ PrPull(r, "resync_pull_develop", "develop")

SpecReleasePair == InitReleasePair /\ [][NextReleasePair]_vars


(***************************************************************************)
(* Two concurrent releases: properties                                     *)
(***************************************************************************)
\* a step that leaves every tag origin has as it is
RemoteTagsKeptStep ==
  \A n \in DOMAIN remoteTags :
    n \in DOMAIN remoteTags' /\ remoteTags'[n] = remoteTags[n]

\* C38: for two interleaved runs with tagging, a tag name that origin has is
\* never moved to another commit, nor given another message: a run whose
\* tag name is taken on origin has its push rejected and ends there.
C38_RemoteTagNeverMoved ==
  /\ [][RemoteTagsKeptStep]_vars
  /\ [](\A r \in DOMAIN runs :
          (runs[r].pc = "exit" /\ runs[r].semver_tag \in DOMAIN runs[r].tags) =>
            /\ runs[r].exit = 1
            /\ runs[r].semver_tag \in DOMAIN remoteTags
            /\ remoteTags[runs[r].semver_tag] # runs[r].tags[runs[r].semver_tag])

\* both runs computed v0.0.10 for different commits; the second run pushed
\* its tag first and the first run's push was rejected
C38_Witness ==
  /\ runs # <<>>
  /\ runs[1].pc = "exit"
  /\ runs[1].semver_tag = TagV0010
  /\ runs[2].semver_tag = TagV0010
  /\ runs[1].tags[TagV0010].target = "m1"
  /\ remoteTags[TagV0010] = runs[2].tags[TagV0010]
  /\ remoteTags[TagV0010].target = "m2"

\* the merge commit of run r is on origin's main
PrPushedMerge(r) ==
  runs[r].merge # "none" /\ runs[r].merge \in rlRemote["main"].reach

\* origin has the tag run r made
PrOwnTagOnRemote(r) ==
  /\ runs[r].semver_tag \in DOMAIN remoteTags
  /\ runs[r].semver_tag \in DOMAIN runs[r].tags
  /\ remoteTags[runs[r].semver_tag] = runs[r].tags[runs[r].semver_tag]
  /\ remoteTags[runs[r].semver_tag].msg =
       ReleaseTagMessage(runs[r].semver_tag, runs[r].title)

\* C39: for two interleaved runs with tagging, every run that pushed its
\* merge commit to main ends with the tag it made on origin, and the two
\* runs do not compute the same tag name.
C39_EveryPushedMergeGetsItsOwnTag ==
  runs # <<>> =>
    /\ \A r \in Runs :
         (runs[r].pc \in {"done", "exit"} /\ PrPushedMerge(r)) => PrOwnTagOnRemote(r)
    /\ (runs[1].semver_tag # <<>> /\ runs[2].semver_tag # <<>>) =>
         runs[1].semver_tag # runs[2].semver_tag


(***************************************************************************)
(* ReleaseManager: the tagging errors of a single run                      *)
(***************************************************************************)
\* the tag the scan of lines 318-325 selects from the local tags, <<>> if none
RlSelectedTag ==
  FirstSemver(VersionSortDescending(NamesWithPrefix(localTags, SemverPrefix)))

\* bash reads each of the three fields of the tag as an integer
ParsesAsThreeIntegers(tag) ==
  /\ MatchesSemver(tag)
  /\ \A i \in 1..3 : BashNumber(SemverFields(tag)[i]).ok

\* C40: in a single run the tag selected as the highest is read as three
\* integers, so that the computation of the next tag does not fail, and the
\* next tag is not among the local tags, so that the check of lines 347-351
\* does not fail either.
C40_NoTaggingErrorInSingleRun ==
  /\ (rlPc = "compute_tag" /\ RlSelectedTag # <<>>) => ParsesAsThreeIntegers(RlSelectedTag)
  /\ \A i \in 1..Len(rlLog) :
       rlLog[i].cmd \in {"compute_tag", "verify_tag"} => rlLog[i].ok

====
